---- MODULE Spec2Model ----
(***************************************************************************)
(* A model of the tunnel-geometry core of fathom and of its game shell:    *)
(*   - polyline.rs   : polyline_to_triangles and its joins and caps,       *)
(*                     lines_to_triangles,                                 *)
(*   - mine_shaft.rs : MineShaft::distance, marching_squares, resolve_case,*)
(*   - app.rs        : AppState's on_keydown, on_keyup and fixed_update,   *)
(*   - scribe.rs     : Scribe::draw_poly_line and Scribe::render,          *)
(*   - main.rs       : the animation-frame callback.                       *)
(*                                                                         *)
(* Arithmetic.  The program computes in f32; the model computes exactly.   *)
(* Directions of polyline edges are multiples of 45 degrees, so that every *)
(* angle the tessellator handles is an integer number of angle units and   *)
(* every vertex it emits is  p + (w/2) * (cos a, sin a)  for an input      *)
(* point p, a width w and an integer angle a: a vertex is the record       *)
(* [p, ang, w].  IEEE signed zeros are kept where the code's result        *)
(* depends on them (atan2 of two zeros): a vector carries the sign bits of *)
(* its components.                                                         *)
(***************************************************************************)
EXTENDS Integers, Sequences, FiniteSets, TLC

VARIABLES
    \* polyline_to_triangles: arguments, locals, result, history of its calls
    points, width, segments_per_arc, closed, poly_pc, line_i, verts, calls,
    \* MineShaft: its fields, the noise source's samples
    shaft, perlin,
    \* MineShaft::distance: the last call (point and result)
    dcall,
    \* marching_squares: arguments, locals, result, history of its cells,
    \* number of distance evaluations
    resolution, neg_zero, ms_center, ms_pc, cell_x, cell_y, ms_segments, cell_log,
    evals,
    \* the calls made and their returns, in order (a history)
    call_log,
    \* AppState: its fields; the fixed_update calls since the last damage and
    \* at the last damage (a history)
    app, app_hist,
    \* Scribe: the map vertices, the draw_poly_line call in progress; the
    \* batches queued and the draw_arrays calls made (histories)
    vertices, scribe_call, queued_log, gl_log,
    \* the animation-frame callback: its position, now and last; the calls it
    \* has made (a history)
    frame, frame_log

poly_vars == <<points, width, segments_per_arc, closed, poly_pc, line_i, verts, calls>>
shaft_vars == <<shaft, perlin>>
ms_vars == <<resolution, neg_zero, ms_center, ms_pc, cell_x, cell_y, ms_segments,
             cell_log, evals>>
app_vars == <<app, app_hist>>
scribe_vars == <<vertices, scribe_call, queued_log, gl_log>>
frame_vars == <<frame, frame_log>>
game_vars == <<app_vars, scribe_vars, frame_vars>>
vars == <<poly_vars, shaft_vars, dcall, ms_vars, call_log, game_vars>>
\* what polyline_to_triangles does not touch
not_poly_vars == <<shaft_vars, dcall, ms_vars, call_log, game_vars>>

(***************************************************************************)
(* Bounds of the model.                                                    *)
(***************************************************************************)
\* input points have coordinates in 0..MaxCoord
MaxCoord == 1
\* a polyline has at most MaxPts points
MaxPts == 4
\* segments_per_arc ranges over 0..MaxSeg
MaxSeg == 3
\* width ranges over 1..MaxWidth
MaxWidth == 2

(***************************************************************************)
(* The game shell as constructed.  The ship's transform is IDENTITY or     *)
(* any other matrix ("moved"), its velocity ZERO or any other vector       *)
(* ("moving"): the claims about AppState are about which of the two a      *)
(* field is, not about the numbers.                                        *)
(***************************************************************************)
\* AppState::new
AppNew ==
    [thrust |-> FALSE, turn_left |-> FALSE, turn_right |-> FALSE,
     player_ship |-> [transform |-> "IDENTITY", vel |-> "ZERO"],
     max_depth |-> 0, health |-> 5, invulnerability_ticks |-> 0,
     game_state |-> "SplashScreen"]

\* no fixed_update has decremented health yet
NoDamage == 0 - 1
HistNew == [since_damage |-> NoDamage, gap |-> NoDamage]

\* Scribe::new: vertices is HashMap::new(); no draw_poly_line in progress
NoVertices == [c \in {} |-> <<>>]
NoCall == [pc |-> "idle", color |-> "White", renders |-> 0]

\* main: last = Instant::now() when the callback is created
FrameNew == [pc |-> "idle", now |-> 0, last |-> 0, frames |-> 0]

(***************************************************************************)
(* Angles.  One eighth of a turn is AngUnit angle units, AngUnit a common  *)
(* multiple of 1..MaxSeg and of the segments_per_arc Scribe passes, so     *)
(* that angle / segments is exact for the multiples of 45 degrees.         *)
(***************************************************************************)
RECURSIVE Factorial(_)
Factorial(n) == IF n <= 1 THEN 1 ELSE n * Factorial(n - 1)

\* the segments_per_arc of Scribe::draw_poly_line
SceneSeg == 12

AngUnit == SceneSeg * Factorial(MaxSeg)
Full == 8 * AngUnit
Half == 4 * AngUnit
Quarter == 2 * AngUnit
\* std::f32::consts::PI
PI == Half
\* the `ang` of the zero vector
NoDir == 0 - 1

NormAng(a) == a % Full

(***************************************************************************)
(* glam::Vec2 values that are unit vectors or zero.  ang is the direction  *)
(* (NoDir for the zero vector); sx, sy are the IEEE sign bits of the two   *)
(* components (1 for +, -1 for -), which matter only for zero components.  *)
(***************************************************************************)
XIsZero(v) == v.ang = NoDir \/ v.ang = Quarter \/ v.ang = 3 * Quarter
YIsZero(v) == v.ang = NoDir \/ v.ang = 0 \/ v.ang = Half

\* Vec2::ZERO
VecZero == [ang |-> NoDir, sx |-> 1, sy |-> 1]

\* atan(2), 63.43 degrees, in whole angle units
AtanTwo == (AngUnit * 14097) \div 10000

\* the angle of (ax, ay), ax >= 0, ay >= 0, not both 0: the eight directions
\* exactly, the slopes 2 and 1/2 to the angle unit
FirstQuadrantAng(ax, ay) ==
    CASE ay = 0 -> 0
      [] ax = 0 -> Quarter
      [] ay = 2 * ax -> AtanTwo
      [] ax = 2 * ay -> Quarter - AtanTwo
      [] OTHER -> AngUnit

\* (p1 - p0).normalize_or_zero(): a difference of equal coordinates is +0.0
NormalizeOrZero(p0, p1) ==
    LET dx == p1[1] - p0[1]
        dy == p1[2] - p0[2]
        q == FirstQuadrantAng(IF dx < 0 THEN -dx ELSE dx, IF dy < 0 THEN -dy ELSE dy)
    IN  IF dx = 0 /\ dy = 0
        THEN VecZero
        ELSE [ang |-> IF dx >= 0 /\ dy >= 0 THEN q
                      ELSE IF dx < 0 /\ dy >= 0 THEN Half - q
                      ELSE IF dx < 0 THEN Half + q
                      ELSE NormAng(Full - q),
              sx |-> IF dx < 0 THEN -1 ELSE 1,
              sy |-> IF dy < 0 THEN -1 ELSE 1]

\* -v
Neg(v) ==
    [ang |-> IF v.ang = NoDir THEN NoDir ELSE NormAng(v.ang + Half),
     sx |-> -v.sx, sy |-> -v.sy]

perpendicularClockwise(v) ==
    [ang |-> IF v.ang = NoDir THEN NoDir ELSE NormAng(v.ang + 3 * Quarter),
     sx |-> v.sy, sy |-> -v.sx]

\* vec2(-v.y, v.x)
perpendicular(v) ==
    [ang |-> IF v.ang = NoDir THEN NoDir ELSE NormAng(v.ang + Quarter),
     sx |-> -v.sy, sy |-> v.sx]

\* the sign of sin(a) for an angle a in angle units: -1, 0 or 1
SinSign(a) ==
    LET m == NormAng(a)
    IN  IF m = 0 \/ m = Half THEN 0 ELSE IF m < Half THEN 1 ELSE -1

\* a.perp_dot(b) > 0.0
PerpDotPositive(a, b) ==
    a.ang # NoDir /\ b.ang # NoDir /\ SinSign(b.ang - a.ang) = 1

\* a.perp_dot(b).atan2(a.dot(b)), in angle units, in -PI..PI.
\* perp_dot = a.x*b.y - a.y*b.x and dot = a.x*b.x + a.y*b.y.  When the exact
\* perp_dot is zero, its IEEE sign decides between +PI and -PI: t1 - t2 is
\* -0.0 only for t1 = -0.0 and t2 = +0.0.  When both vectors' products are
\* all zeros (one vector is zero), dot is -0.0 only when both its terms are.
signed_angle(a, b) ==
    LET t1Zero == XIsZero(a) \/ YIsZero(b)
        t2Zero == YIsZero(a) \/ XIsZero(b)
        perpNegZero == t1Zero /\ t2Zero /\ a.sx * b.sy = -1 /\ a.sy * b.sx = 1
        d == NormAng(b.ang - a.ang)
    IN  IF a.ang = NoDir \/ b.ang = NoDir
        THEN IF a.sx * b.sx = -1 /\ a.sy * b.sy = -1
             THEN (IF perpNegZero THEN -PI ELSE PI)
             ELSE 0
        ELSE IF d = Half THEN (IF perpNegZero THEN -PI ELSE PI)
        ELSE IF d < Half THEN d
        ELSE d - Full

(***************************************************************************)
(* Vertices.  Offset(p, v, w) is  p + v * half_width  with half_width =    *)
(* w / 2; Rotated(p, start, a, w) is  p + Mat2::from_angle(a) * start *    *)
(* half_width.                                                             *)
(***************************************************************************)
Offset(p, v, w) ==
    IF v.ang = NoDir
    THEN [p |-> p, ang |-> NoDir, w |-> 0]
    ELSE [p |-> p, ang |-> v.ang, w |-> w]

Rotated(p, start, a, w) ==
    IF start.ang = NoDir
    THEN [p |-> p, ang |-> NoDir, w |-> 0]
    ELSE [p |-> p, ang |-> NormAng(start.ang + a), w |-> w]

\* push_triangle
push_triangle(vs, a, b, c) == vs \o <<a, b, c>>

\* (variant: an edge of length zero gets no quad)
QuadSkipsZeroEdge(p0, p1, w) ==
    IF p0 = p1
    THEN <<>>
    ELSE LET normal == perpendicular(NormalizeOrZero(p0, p1))
             a == Offset(p0, normal, w)
             b == Offset(p0, Neg(normal), w)
             c == Offset(p1, normal, w)
             d == Offset(p1, Neg(normal), w)
         IN  push_triangle(push_triangle(<<>>, a, b, c), c, b, d)

\* the two triangles of an edge's quad: (a, b, c) then (c, b, d)
Quad(p0, p1, w) ==
    LET normal == perpendicular(NormalizeOrZero(p0, p1))
        a == Offset(p0, normal, w)
        b == Offset(p0, Neg(normal), w)
        c == Offset(p1, normal, w)
        d == Offset(p1, Neg(normal), w)
    IN  push_triangle(push_triangle(<<>>, a, b, c), c, b, d)

\* the fan of `segments` triangles sweeping `angle` from `start` around center
RECURSIVE Fan(_, _, _, _, _, _)
Fan(center, start, angle, w, segments, k) ==
    IF k >= segments
    THEN <<>>
    ELSE LET step == angle \div segments
             a0 == k * step
             a1 == (k + 1) * step
             c == [p |-> center, ang |-> NoDir, w |-> 0]
             p0 == Rotated(center, start, a0, w)
             p1 == Rotated(center, start, a1, w)
         IN  <<c, p0, p1>> \o Fan(center, start, angle, w, segments, k + 1)

\* the sweep angle generate_round_join computes for its dir_in and dir_out
JoinAngle(dir_in, dir_out) ==
    LET n1 == perpendicular(dir_in)
        n2 == perpendicular(dir_out)
        is_left_turn == PerpDotPositive(dir_in, dir_out)
        start == IF is_left_turn THEN n1 ELSE Neg(n1)
        end == IF is_left_turn THEN n2 ELSE Neg(n2)
        angle == signed_angle(start, end)
    IN  IF is_left_turn /\ angle < 0 THEN angle + 2 * PI
        ELSE IF ~is_left_turn /\ angle > 0 THEN angle - 2 * PI
        ELSE angle

JoinStartInner(dir_in, dir_out) ==
    IF PerpDotPositive(dir_in, dir_out)
    THEN Neg(perpendicular(dir_in))
    ELSE perpendicular(dir_in)

\* the arc's first vector
JoinStart(dir_in, dir_out) ==
    IF PerpDotPositive(dir_in, dir_out)
    THEN perpendicular(dir_in)
    ELSE Neg(perpendicular(dir_in))

generate_round_join(center, dir_in, dir_out, w, segments) ==
    Fan(center, JoinStart(dir_in, dir_out), JoinAngle(dir_in, dir_out), w, segments, 0)

\* (variant: the cap starts at +normal)
CapStartFlipped(dir, at_start) ==
    perpendicular(IF at_start THEN Neg(dir) ELSE dir)

\* the cap's first vector and sweep angle
CapStart(dir, at_start) ==
    Neg(perpendicular(IF at_start THEN Neg(dir) ELSE dir))

CapAngle(dir, at_start) ==
    LET normal == perpendicular(IF at_start THEN Neg(dir) ELSE dir)
    IN  signed_angle(Neg(normal), normal)

generate_round_cap(center, dir, w, segments, at_start) ==
    Fan(center, CapStart(dir, at_start), CapAngle(dir, at_start), w, segments, 0)

(***************************************************************************)
(* polyline_to_triangles(points, width, segments_per_arc, closed).         *)
(* Indices are the code's (0-based); points[k] of the code is Pt(k).       *)
(* calls is a history variable: one record per quad, join and cap the call *)
(* has emitted, in order.                                                  *)
(***************************************************************************)
Pt(k) == points[k + 1]
NumPoints == Len(points)

line_countAlwaysClosing == NumPoints

line_count == IF closed THEN NumPoints ELSE NumPoints - 1

\* the condition under which the loop body emits a join after edge i
JoinAfterEdgeNoWrap(k) == k < NumPoints - 2

JoinAfterEdge(k) == k < NumPoints - 2 \/ (closed /\ k < NumPoints - 1)

GridPts == (0..MaxCoord) \X (0..MaxCoord)

\* edges (the closing edge of a closed polyline too) run along the 8
\* directions the angle units can express, or are of length zero
EightDir(p, q) ==
    LET dx == q[1] - p[1]
        dy == q[2] - p[2]
    IN  dx = 0 \/ dy = 0 \/ dx = dy \/ dx = -dy

PolyInputOk(ps) ==
    /\ \A k \in 1..(Len(ps) - 1) : EightDir(ps[k], ps[k + 1])
    /\ Len(ps) >= 1 => EightDir(ps[Len(ps)], ps[1])

PolyInit ==
    /\ points \in UNION {[1..n -> GridPts] : n \in 0..MaxPts}
    /\ PolyInputOk(points)
    /\ width \in 1..MaxWidth
    /\ segments_per_arc \in 0..MaxSeg
    /\ closed \in BOOLEAN
    /\ poly_pc = "entry"
    /\ line_i = 0
    /\ verts = <<>>
    /\ calls = <<>>
    \* the other operations at rest
    /\ shaft = [width |-> 0, height |-> 0]
    /\ perlin = <<>>
    /\ dcall = [called |-> FALSE, p |-> <<0, 0>>, d |-> 0]
    /\ resolution = 2
    /\ neg_zero = FALSE
    /\ ms_center = <<0, 0>>
    /\ ms_pc = "idle"
    /\ cell_x = 0
    /\ cell_y = 0
    /\ ms_segments = <<>>
    /\ cell_log = <<>>
    /\ evals = 0
    /\ call_log = <<>>
    /\ app = AppNew
    /\ app_hist = HistNew
    /\ vertices = NoVertices
    /\ scribe_call = NoCall
    /\ queued_log = <<>>
    /\ gl_log = <<>>
    /\ frame = FrameNew
    /\ frame_log = <<>>

\* the guard of the early return
TooFewPointsOpenOnly == NumPoints < 2 /\ ~closed

TooFewPointsEmptyOnly == NumPoints < 1

TooFewPoints == NumPoints < 2

\* points[k] is within bounds; a - b on usize underflows
InRange(k) == k >= 0 /\ k < NumPoints
Underflows(a, b) == a < b

\* lines 47-51: points.len() - 1 of an open polyline
EnterPanics == ~closed /\ Underflows(NumPoints, 1)

\* lines 54-82, iteration i: the subtractions points.len() - 1 (line 55),
\* points.len() - 2 (line 75) and the indices i, i + 1 or 0, i + 2 or 0
EdgePanics(k) ==
    \/ Underflows(NumPoints, 1)
    \/ ~InRange(k)
    \/ ~InRange(IF k < NumPoints - 1 THEN k + 1 ELSE 0)
    \/ Underflows(NumPoints, 2)
    \/ (k < NumPoints - 2 \/ (closed /\ k < NumPoints - 1))
           /\ ~InRange(IF k < NumPoints - 2 THEN k + 2 ELSE 0)

\* lines 86-98: last = points.len() - 1, points[1], points[0], points[last],
\* points[last - 1]
FinishPanics ==
    \/ Underflows(NumPoints, 1)
    \/ ~InRange(1) \/ ~InRange(0)
    \/ ~InRange(NumPoints - 1)
    \/ Underflows(NumPoints - 1, 1)
    \/ ~InRange(NumPoints - 2)

\* lines 40-51: the early return for fewer than 2 points
PolyEnter ==
    /\ poly_pc = "entry"
    /\ poly_pc' = IF TooFewPoints THEN "done"
                  ELSE IF EnterPanics THEN "panic" ELSE "loop"
    /\ UNCHANGED <<points, width, segments_per_arc, closed, line_i, verts, calls>>
    /\ UNCHANGED not_poly_vars

\* lines 54-83: what iteration i of the loop appends to verts
EdgeVerts(k) ==
    LET p0 == Pt(k)
        p1 == IF k < NumPoints - 1 THEN Pt(k + 1) ELSE Pt(0)
        dir == NormalizeOrZero(p0, p1)
        p2 == IF k < NumPoints - 2 THEN Pt(k + 2) ELSE Pt(0)
        dir_next == NormalizeOrZero(p1, p2)
    IN  IF JoinAfterEdge(k)
        THEN Quad(p0, p1, width)
                 \o generate_round_join(p1, dir_next, dir, width, segments_per_arc)
        ELSE Quad(p0, p1, width)

\* the history of iteration i: the quad of edge i and, if emitted, the join
\* at the edge's end point, with the direction of the edge arriving at that
\* point (arrive), of the edge leaving it (leave) and the sweep angle
EdgeCalls(k) ==
    LET p0 == Pt(k)
        p1 == IF k < NumPoints - 1 THEN Pt(k + 1) ELSE Pt(0)
        dir == NormalizeOrZero(p0, p1)
        p2 == IF k < NumPoints - 2 THEN Pt(k + 2) ELSE Pt(0)
        dir_next == NormalizeOrZero(p1, p2)
        quadCall == [kind |-> "quad", at |-> k, arrive |-> dir, leave |-> dir,
                     angle |-> 0]
        joinCall == [kind |-> "join",
                     at |-> IF k < NumPoints - 1 THEN k + 1 ELSE 0,
                     arrive |-> dir, leave |-> dir_next,
                     angle |-> JoinAngle(dir_next, dir)]
    IN  IF JoinAfterEdge(k) THEN <<quadCall, joinCall>> ELSE <<quadCall>>

\* lines 53-84: one iteration of the loop over the edges
PolyEdge ==
    /\ poly_pc = "loop"
    /\ line_i < line_count
    /\ IF EdgePanics(line_i)
       THEN /\ poly_pc' = "panic"
            /\ UNCHANGED <<line_i, verts, calls>>
       ELSE /\ verts' = verts \o EdgeVerts(line_i)
            /\ calls' = calls \o EdgeCalls(line_i)
            /\ line_i' = line_i + 1
            /\ UNCHANGED poly_pc
    /\ UNCHANGED <<points, width, segments_per_arc, closed>>
    /\ UNCHANGED not_poly_vars

\* lines 86-116: what the code after the loop appends to verts
FinishVerts ==
    LET last == NumPoints - 1
        dir_start == NormalizeOrZero(Pt(0), Pt(1))
        dir_end == NormalizeOrZero(Pt(last - 1), Pt(last))
        dir == NormalizeOrZero(Pt(last), Pt(0))
    IN  IF closed
        THEN generate_round_join(Pt(0), dir_start, dir, width, segments_per_arc)
        ELSE generate_round_cap(Pt(0), dir_start, width, segments_per_arc, TRUE)
                 \o generate_round_cap(Pt(last), dir_end, width,
                                       segments_per_arc, FALSE)

FinishCalls ==
    LET last == NumPoints - 1
        dir_start == NormalizeOrZero(Pt(0), Pt(1))
        dir_end == NormalizeOrZero(Pt(last - 1), Pt(last))
        dir == NormalizeOrZero(Pt(last), Pt(0))
    IN  IF closed
        THEN <<[kind |-> "join", at |-> 0, arrive |-> dir, leave |-> dir_start,
                angle |-> JoinAngle(dir_start, dir)]>>
        ELSE <<[kind |-> "cap", at |-> 0, arrive |-> dir_start,
                leave |-> dir_start, angle |-> CapAngle(dir_start, TRUE)],
               [kind |-> "cap", at |-> last, arrive |-> dir_end,
                leave |-> dir_end, angle |-> CapAngle(dir_end, FALSE)]>>

\* lines 86-118: the closing join, or the two caps, and the return
PolyFinish ==
    /\ poly_pc = "loop"
    /\ line_i >= line_count
    /\ IF FinishPanics
       THEN /\ poly_pc' = "panic"
            /\ UNCHANGED <<verts, calls>>
       ELSE /\ verts' = verts \o FinishVerts
            /\ calls' = calls \o FinishCalls
            /\ poly_pc' = "done"
    /\ UNCHANGED <<points, width, segments_per_arc, closed, line_i>>
    /\ UNCHANGED not_poly_vars

PolyNext == PolyEnter \/ PolyEdge \/ PolyFinish

(***************************************************************************)
(* lines_to_triangles(points, width): the quads of the disjoint pairs      *)
(* (points[0], points[1]), (points[2], points[3]), ... that                *)
(* points.iter().tuples() yields.  line_i is the index of the next point   *)
(* the iterator hands out.                                                 *)
(***************************************************************************)
\* a list for lines_to_triangles has at most MaxLinePts points
MaxLinePts == 5

LinesInit ==
    /\ points \in UNION {[1..n -> GridPts] : n \in 0..MaxLinePts}
    /\ width \in 1..MaxWidth
    /\ segments_per_arc = 0
    /\ closed = FALSE
    /\ poly_pc = "lines_entry"
    /\ line_i = 0
    /\ verts = <<>>
    /\ calls = <<>>
    \* the other operations at rest
    /\ shaft = [width |-> 0, height |-> 0]
    /\ perlin = <<>>
    /\ dcall = [called |-> FALSE, p |-> <<0, 0>>, d |-> 0]
    /\ resolution = 2
    /\ neg_zero = FALSE
    /\ ms_center = <<0, 0>>
    /\ ms_pc = "idle"
    /\ cell_x = 0
    /\ cell_y = 0
    /\ ms_segments = <<>>
    /\ cell_log = <<>>
    /\ evals = 0
    /\ call_log = <<>>
    /\ app = AppNew
    /\ app_hist = HistNew
    /\ vertices = NoVertices
    /\ scribe_call = NoCall
    /\ queued_log = <<>>
    /\ gl_log = <<>>
    /\ frame = FrameNew
    /\ frame_log = <<>>

\* (variant: overlapping pairs, as of tuple_windows())
AfterTupleOverlapping(k) == k + 1

\* the iterator's position after the tuple that starts at point k
AfterTuple(k) == k + 2

\* the iterator has a whole tuple left at position k
HasTuple(k) == k + 1 < NumPoints

\* lines 6-11: the early return for fewer than 2 points
LinesEnter ==
    /\ poly_pc = "lines_entry"
    /\ poly_pc' = IF NumPoints < 2 THEN "done" ELSE "lines_loop"
    /\ UNCHANGED <<points, width, segments_per_arc, closed, line_i, verts, calls>>
    /\ UNCHANGED not_poly_vars

\* lines 13-26: the quad of one tuple (p0, p1)
LinesPair ==
    /\ poly_pc = "lines_loop"
    /\ HasTuple(line_i)
    /\ verts' = verts \o Quad(Pt(line_i), Pt(line_i + 1), width)
    /\ calls' = Append(calls,
                       [kind |-> "quad", at |-> line_i,
                        arrive |-> NormalizeOrZero(Pt(line_i), Pt(line_i + 1)),
                        leave |-> NormalizeOrZero(Pt(line_i), Pt(line_i + 1)),
                        angle |-> 0])
    /\ line_i' = AfterTuple(line_i)
    /\ UNCHANGED <<points, width, segments_per_arc, closed, poly_pc>>
    /\ UNCHANGED not_poly_vars

\* lines 13, 29: the iterator has no whole tuple left; verts is returned
LinesReturn ==
    /\ poly_pc = "lines_loop"
    /\ ~HasTuple(line_i)
    /\ poly_pc' = "done"
    /\ UNCHANGED <<points, width, segments_per_arc, closed, line_i, verts, calls>>
    /\ UNCHANGED not_poly_vars

LinesNext == LinesEnter \/ LinesPair \/ LinesReturn

(***************************************************************************)
(* The polylines of AppState::draw: the player ship, a closed triangle     *)
(* drawn by Scribe::draw_poly_line with width 1.0 and 12 segments per arc. *)
(* The inputs here are the ship's three points from any of them on and in  *)
(* either order (edges of slope 0, 2 and -2), open or closed.              *)
(***************************************************************************)
Ship == <<<<-7, -7>>, <<7, -7>>, <<0, 7>>>>

Shifted(ps, k) == [i \in 1..Len(ps) |-> ps[((i - 1 + k) % Len(ps)) + 1]]
Reversed(ps) == [i \in 1..Len(ps) |-> ps[Len(ps) + 1 - i]]

SceneShapes ==
    {Shifted(Ship, k) : k \in 0..2} \cup {Reversed(Shifted(Ship, k)) : k \in 0..2}

SceneInit ==
    /\ points \in SceneShapes
    /\ width \in 1..MaxWidth
    /\ segments_per_arc \in {0, 1, SceneSeg}
    /\ closed \in BOOLEAN
    /\ poly_pc = "entry"
    /\ line_i = 0
    /\ verts = <<>>
    /\ calls = <<>>
    \* the other operations at rest
    /\ shaft = [width |-> 0, height |-> 0]
    /\ perlin = <<>>
    /\ dcall = [called |-> FALSE, p |-> <<0, 0>>, d |-> 0]
    /\ resolution = 2
    /\ neg_zero = FALSE
    /\ ms_center = <<0, 0>>
    /\ ms_pc = "idle"
    /\ cell_x = 0
    /\ cell_y = 0
    /\ ms_segments = <<>>
    /\ cell_log = <<>>
    /\ evals = 0
    /\ call_log = <<>>
    /\ app = AppNew
    /\ app_hist = HistNew
    /\ vertices = NoVertices
    /\ scribe_call = NoCall
    /\ queued_log = <<>>
    /\ gl_log = <<>>
    /\ frame = FrameNew
    /\ frame_log = <<>>

(***************************************************************************)
(* MineShaft.  Coordinates are whole units.  Field values (distances) are  *)
(* integers in units of 1/FUnit, FUnit chosen so that the threshold 0.0001 *)
(* of the interpolation is two field units.  The geometric terms are       *)
(* computed on the unit grid (the centerline 35*sin(0.01*y) rounded to a   *)
(* whole unit, the length |p| rounded down); the noise carries the         *)
(* sub-unit part.  The noise source (the noise crate's Perlin) is a table  *)
(* of samples, perlin[p] being its value at p * noise_scale in units of    *)
(* 1/PerlinRes, any value in -PerlinRes..PerlinRes.                        *)
(***************************************************************************)
\* MineShaft::new: shaft_radius, noise_amplitude
shaft_radius == 60
noise_amplitude == 60
\* the radius secondary_shaft_distance passes
ClearRadius == 14
\* the radius of the starting zone
StartRadius == 100
\* the amplitude of the centerline, and 1 / its frequency 0.01
WobbleAmp == 35
WobbleDen == 100
\* 1 / 0.0001, the threshold of interp
EpsDen == 10000
FUnit == 2 * EpsDen
PerlinRes == noise_amplitude * FUnit

Abs(n) == IF n < 0 THEN -n ELSE n
Min(a, b) == IF a <= b THEN a ELSE b

\* SinRes * sin(y / WobbleDen) for |y| <= 320, by the Taylor series to z^11
\* in fixed point (error below 0.001)
SinRes == 100 * WobbleDen
SinFixed(y) ==
    LET z == (SinRes \div WobbleDen) * Abs(y)
        z2 == (z * z) \div SinRes
        h5 == SinRes - z2 \div 110
        h4 == SinRes - ((z2 * h5) \div SinRes) \div 72
        h3 == SinRes - ((z2 * h4) \div SinRes) \div 42
        h2 == SinRes - ((z2 * h3) \div SinRes) \div 20
        h1 == SinRes - ((z2 * h2) \div SinRes) \div 6
        s == (z * h1) \div SinRes
    IN  IF y >= 0 THEN s ELSE -s

\* (p.y * 0.01).sin() * 35.0, to the nearest unit
Centerline(y) ==
    LET v == WobbleAmp * Abs(SinFixed(y))
        r == (v + SinRes \div 2) \div SinRes
    IN  IF SinFixed(y) >= 0 THEN r ELSE -r

\* the integer square root
RECURSIVE ISqrtBetween(_, _, _)
ISqrtBetween(n, lo, hi) ==
    IF lo >= hi THEN lo
    ELSE LET mid == (lo + hi + 1) \div 2
         IN  IF mid * mid <= n
             THEN ISqrtBetween(n, mid, hi)
             ELSE ISqrtBetween(n, lo, mid - 1)

\* p.length(), rounded down
Length(p) == ISqrtBetween(p[1] * p[1] + p[2] * p[2], 0, Abs(p[1]) + Abs(p[2]))

shaft_distance(p, radius) == (Abs(p[1] - Centerline(p[2])) - radius) * FUnit

secondary_shaft_distance(p) == shaft_distance(p, ClearRadius)

starting_zone_distanceNoRadius(p) == Length(p) * FUnit

starting_zone_distance(p) == (Length(p) - StartRadius) * FUnit

noiseRemembering(p) ==
    ((perlin[p] * noise_amplitude) \div (PerlinRes \div FUnit)) - Len(call_log) * FUnit

noise(p) == (perlin[p] * noise_amplitude) \div (PerlinRes \div FUnit)

distanceNoClearance(p) ==
    Min(starting_zone_distance(p), shaft_distance(p, shaft_radius) + noise(p))

distanceNoiseOnAll(p) ==
    Min(secondary_shaft_distance(p),
        Min(starting_zone_distance(p), shaft_distance(p, shaft_radius))) + noise(p)

distance(p) ==
    Min(secondary_shaft_distance(p),
        Min(starting_zone_distance(p), shaft_distance(p, shaft_radius) + noise(p)))

(***************************************************************************)
(* MineShaft::distance on its own: the noise source is sampled at two      *)
(* points, and distance is called on them in any order, any number of      *)
(* times.                                                                  *)
(***************************************************************************)
DistPts ==
    {<<0, 0>>, <<100, 0>>, <<101, 0>>, <<0, 150>>, <<35, 150>>, <<48, 150>>,
     <<49, 150>>, <<95, 156>>, <<-60, 200>>, <<13, 0>>}
DistNoise == {-PerlinRes, -1, 0, 1, PerlinRes}

DistInit ==
    /\ shaft = [width |-> 2, height |-> 2]
    /\ \E p, q \in DistPts : perlin \in [{p, q} -> DistNoise]
    /\ dcall = [called |-> FALSE, p |-> <<0, 0>>, d |-> 0]
    \* the other operations at rest
    /\ points = <<>>
    /\ width = 1
    /\ segments_per_arc = 0
    /\ closed = FALSE
    /\ poly_pc = "idle"
    /\ line_i = 0
    /\ verts = <<>>
    /\ calls = <<>>
    /\ resolution = 2
    /\ neg_zero = FALSE
    /\ ms_center = <<0, 0>>
    /\ ms_pc = "idle"
    /\ cell_x = 0
    /\ cell_y = 0
    /\ ms_segments = <<>>
    /\ cell_log = <<>>
    /\ evals = 0
    /\ call_log = <<>>
    /\ app = AppNew
    /\ app_hist = HistNew
    /\ vertices = NoVertices
    /\ scribe_call = NoCall
    /\ queued_log = <<>>
    /\ gl_log = <<>>
    /\ frame = FrameNew
    /\ frame_log = <<>>

DistCall ==
    /\ \E p \in DOMAIN perlin :
           dcall' = [called |-> TRUE, p |-> p, d |-> distance(p)]
    /\ UNCHANGED <<poly_vars, shaft_vars, ms_vars, call_log, game_vars>>

(***************************************************************************)
(* MineShaft::marching_squares(resolution, center).  resolution 0 is +0.0  *)
(* or, with neg_zero, -0.0.  The points of the grid are whole units.  A    *)
(* returned point is an f32 pair: the representable coordinates are the    *)
(* multiples of 1/CoordRes (an f32 of magnitude 64..128 has 2^17 of them   *)
(* per unit; the mantissa is narrowed here), and a returned point is the   *)
(* record [x, y] of its coordinates in these grid steps.                   *)
(***************************************************************************)
\* representable f32 coordinates per unit, narrowed
CoordRes == 64

\* i32::MAX and i32::MIN, narrowed
I32Max == 3
I32Min == (0 - I32Max) - 1

\* (a / b) as i32 for f32 a >= 0 and b: the quotient truncated towards zero
\* and saturated; a / 0.0 is +inf, a / -0.0 is -inf, 0.0 / 0.0 is NaN, which
\* casts to 0
DivToI32(a, b, nz) ==
    IF b = 0
    THEN (IF a = 0 THEN 0 ELSE IF nz THEN I32Min ELSE I32Max)
    ELSE IF b > 0 THEN Min(a \div b, I32Max)
    ELSE 0 - Min(a \div (0 - b), I32Max + 1)

\* (variant: one column more, the loop of 0..=cols)
ColsInclusive(w, res, nz) == DivToI32(w, res, nz) + 1

Cols(w, res, nz) == DivToI32(w, res, nz)
Rows(h, res, nz) == DivToI32(h, res, nz)

\* center - vec2(width, height) * 0.5
OffsetOf(w, h, c) == <<c[1] - w \div 2, c[2] - h \div 2>>

\* (variant: the cells one column to the right)
CellCornersShifted(x, y, res, off) ==
    LET p0 == <<(x + 1) * res + off[1], y * res + off[2]>>
    IN  <<p0, <<p0[1] + res, p0[2]>>, <<p0[1] + res, p0[2] + res>>,
          <<p0[1], p0[2] + res>>>>

\* the corners p0..p3 of cell (x, y) and its center (p0 + p2) * 0.5
CellCorners(x, y, res, off) ==
    LET p0 == <<x * res + off[1], y * res + off[2]>>
    IN  <<p0, <<p0[1] + res, p0[2]>>, <<p0[1] + res, p0[2] + res>>,
          <<p0[1], p0[2] + res>>>>

CellCenter(x, y, res, off) ==
    LET c == CellCorners(x, y, res, off)
    IN  <<(c[1][1] + c[3][1]) \div 2, (c[1][2] + c[3][2]) \div 2>>

\* every point a call samples
SamplePts(w, h, res, nz, c) ==
    LET off == OffsetOf(w, h, c)
    IN  UNION {{CellCorners(x, y, res, off)[k] : k \in 1..4}
                   \cup {CellCenter(x, y, res, off)} :
               x \in 0..(Cols(w, res, nz) - 1), y \in 0..(Rows(h, res, nz) - 1)}

\* windows (width, height) and resolutions: even, so that the offset and
\* the cell centers are on the unit grid; at most two cells of distinct
\* corners per call, or a grid of 2 x 2 cells, or one row whose number of
\* columns is beyond the i32 range
Windows == {<<0, 0>>, <<0, 2>>, <<2, 0>>, <<2, 2>>, <<4, 2>>, <<2, 4>>, <<4, 4>>,
            <<6, 4>>, <<8, 2>>}
Resolutions == {-2, 0, 2, 4}
Centers == {<<95, 156>>, <<96, 156>>}
MSNoise == {-3 * FUnit, -1, 0}

ManyCells(w, h, res) == res > 0 /\ (w \div res) * (h \div res) > 2

MSInputOk(w, h, res) ==
    ManyCells(w, h, res) =>
        \/ (w \div res = 2 /\ h \div res = 2)
        \/ (w \div res = I32Max + 1 /\ h \div res = 1)

\* the noise values of a window: the larger grids with a flat noise
MSNoiseOf(w, h, res) == IF ManyCells(w, h, res) THEN {0} ELSE MSNoise

MSInit ==
    /\ \E win \in Windows : shaft = [width |-> win[1], height |-> win[2]]
    /\ resolution \in Resolutions
    /\ neg_zero \in BOOLEAN
    /\ neg_zero => resolution = 0
    /\ MSInputOk(shaft.width, shaft.height, resolution)
    /\ ms_center \in Centers
    /\ perlin \in [SamplePts(shaft.width, shaft.height, resolution, neg_zero,
                             ms_center)
                       -> MSNoiseOf(shaft.width, shaft.height, resolution)]
    /\ ms_pc = "entry"
    /\ cell_x = 0
    /\ cell_y = 0
    /\ ms_segments = <<>>
    /\ cell_log = <<>>
    /\ evals = 0
    \* the other operations at rest
    /\ dcall = [called |-> FALSE, p |-> <<0, 0>>, d |-> 0]
    /\ points = <<>>
    /\ width = 1
    /\ segments_per_arc = 0
    /\ closed = FALSE
    /\ poly_pc = "idle"
    /\ line_i = 0
    /\ verts = <<>>
    /\ calls = <<>>
    /\ call_log = <<>>
    /\ app = AppNew
    /\ app_hist = HistNew
    /\ vertices = NoVertices
    /\ scribe_call = NoCall
    /\ queued_log = <<>>
    /\ gl_log = <<>>
    /\ frame = FrameNew
    /\ frame_log = <<>>

cols == Cols(shaft.width, resolution, neg_zero)
rows == Rows(shaft.height, resolution, neg_zero)
offset == OffsetOf(shaft.width, shaft.height, ms_center)

\* n / d to the nearest integer added to base, a tie to the even result
\* (the rounding of an f32 result to the representable neighbours)
RoundFrom(base, n, d) ==
    LET nn == IF d < 0 THEN 0 - n ELSE n
        dd == Abs(d)
        lo == base + nn \div dd
        r2 == 2 * (nn % dd)
    IN  IF r2 < dd THEN lo
        ELSE IF r2 > dd THEN lo + 1
        ELSE IF lo % 2 = 0 THEN lo ELSE lo + 1

\* the f32 value of a + (b - a) * (tn / td) for one coordinate, in grid steps
Lerp(a, b, tn, td) == RoundFrom(a * CoordRes, (b - a) * tn * CoordRes, td)

\* t = (0.0 - da) / (db - da); a + (b - a) * t
interpWrongSign(a, da, b, db) ==
    IF Abs(da - db) * EpsDen < FUnit
    THEN [x |-> Lerp(a[1], b[1], 1, 2), y |-> Lerp(a[2], b[2], 1, 2)]
    ELSE [x |-> Lerp(a[1], b[1], da, db - da),
          y |-> Lerp(a[2], b[2], da, db - da)]

\* (variant: the first end point instead of the midpoint)
interpNearA(a, da, b, db) ==
    IF Abs(da - db) * EpsDen < FUnit
    THEN [x |-> a[1] * CoordRes, y |-> a[2] * CoordRes]
    ELSE [x |-> Lerp(a[1], b[1], 0 - da, db - da),
          y |-> Lerp(a[2], b[2], 0 - da, db - da)]

\* (variant: the midpoint only for da = db)
interpExactTie(a, da, b, db) ==
    IF da = db
    THEN [x |-> Lerp(a[1], b[1], 1, 2), y |-> Lerp(a[2], b[2], 1, 2)]
    ELSE [x |-> Lerp(a[1], b[1], 0 - da, db - da),
          y |-> Lerp(a[2], b[2], 0 - da, db - da)]

\* lines 81-88: (a + b) * 0.5 if (da - db).abs() < 0.0001, else a + (b - a) * t
\* with t = (0.0 - da) / (db - da)
interp(a, da, b, db) ==
    IF Abs(da - db) * EpsDen < FUnit
    THEN [x |-> Lerp(a[1], b[1], 1, 2), y |-> Lerp(a[2], b[2], 1, 2)]
    ELSE [x |-> Lerp(a[1], b[1], 0 - da, db - da),
          y |-> Lerp(a[2], b[2], 0 - da, db - da)]

resolve_caseCenterIgnored(index, center_sign) ==
    CASE index = 1 -> <<<<3, 0>>>>
      [] index = 2 -> <<<<0, 1>>>>
      [] index = 3 -> <<<<3, 1>>>>
      [] index = 4 -> <<<<1, 2>>>>
      [] index = 5 -> <<<<0, 1>>, <<2, 3>>>>
      [] index = 6 -> <<<<0, 2>>>>
      [] index = 7 -> <<<<3, 2>>>>
      [] index = 8 -> <<<<2, 3>>>>
      [] index = 9 -> <<<<0, 2>>>>
      [] index = 10 -> <<<<0, 1>>, <<2, 3>>>>
      [] index = 11 -> <<<<1, 2>>>>
      [] index = 12 -> <<<<1, 3>>>>
      [] index = 13 -> <<<<0, 1>>>>
      [] index = 14 -> <<<<3, 0>>>>
      [] OTHER -> <<>>

resolve_caseNoSaddle(index, center_sign) ==
    IF index \in {5, 10} THEN <<<<0, 1>>>>
    ELSE resolve_caseCenterIgnored(index, center_sign)

\* (variant: case 3 joins the bottom and top edges)
resolve_caseThreeAcross(index, center_sign) ==
    IF index = 3 THEN <<<<0, 2>>>>
    ELSE IF index \in {5, 10} /\ ~center_sign
    THEN (IF index = 5 THEN <<<<3, 0>>, <<1, 2>>>> ELSE <<<<0, 1>>, <<2, 3>>>>)
    ELSE IF index = 10 THEN <<<<1, 2>>, <<3, 0>>>>
    ELSE resolve_caseCenterIgnored(index, center_sign)

\* lines 125-156
resolve_case(index, center_sign) ==
    CASE index = 0 \/ index = 15 -> <<>>
      [] index = 1 -> <<<<3, 0>>>>
      [] index = 2 -> <<<<0, 1>>>>
      [] index = 3 -> <<<<3, 1>>>>
      [] index = 4 -> <<<<1, 2>>>>
      [] index = 5 -> (IF center_sign THEN <<<<0, 1>>, <<2, 3>>>>
                       ELSE <<<<3, 0>>, <<1, 2>>>>)
      [] index = 6 -> <<<<0, 2>>>>
      [] index = 7 -> <<<<3, 2>>>>
      [] index = 8 -> <<<<2, 3>>>>
      [] index = 9 -> <<<<0, 2>>>>
      [] index = 10 -> (IF center_sign THEN <<<<1, 2>>, <<3, 0>>>>
                        ELSE <<<<0, 1>>, <<2, 3>>>>)
      [] index = 11 -> <<<<1, 2>>>>
      [] index = 12 -> <<<<1, 3>>>>
      [] index = 13 -> <<<<0, 1>>>>
      [] index = 14 -> <<<<3, 0>>>>
      [] OTHER -> <<>>

\* lines 74-78: bit k of the index is set when corner k is inside (d < 0.0)
CaseIndex(d) ==
    (IF d[1] < 0 THEN 1 ELSE 0) + (IF d[2] < 0 THEN 2 ELSE 0)
        + (IF d[3] < 0 THEN 4 ELSE 0) + (IF d[4] < 0 THEN 8 ELSE 0)

\* lines 90-93: the crossing points e0..e3 of the four edges
CellEdges(p, d) ==
    <<interp(p[1], d[1], p[2], d[2]), interp(p[2], d[2], p[3], d[3]),
      interp(p[3], d[3], p[4], d[4]), interp(p[4], d[4], p[1], d[1])>>

\* lines 100-117: the points pushed for the pairs of edges
RECURSIVE PushPairs(_, _, _)
PushPairs(pairs, e, k) ==
    IF k > Len(pairs) THEN <<>>
    ELSE LET a == pairs[k][1]
             b == pairs[k][2]
         IN  (IF a \in 0..3 /\ b \in 0..3 THEN <<e[a + 1], e[b + 1]>> ELSE <<>>)
                 \o PushPairs(pairs, e, k + 1)

\* lines 64-117: what the body of the loops pushes for cell (x, y)
CellPoints(x, y) ==
    LET p == CellCorners(x, y, resolution, offset)
        d == <<distance(p[1]), distance(p[2]), distance(p[3]), distance(p[4])>>
        dc == distance(CellCenter(x, y, resolution, offset))
    IN  PushPairs(resolve_case(CaseIndex(d), dc < 0), CellEdges(p, d), 1)

\* the history of cell (x, y): its corners, samples, case and output
CellRecord(x, y) ==
    LET p == CellCorners(x, y, resolution, offset)
        d == <<distance(p[1]), distance(p[2]), distance(p[3]), distance(p[4])>>
        dc == distance(CellCenter(x, y, resolution, offset))
    IN  [x |-> x, y |-> y, p |-> p, d |-> d, dc |-> dc,
         index |-> CaseIndex(d), edges |-> resolve_case(CaseIndex(d), dc < 0),
         first |-> Len(ms_segments),
         n |-> Len(CellPoints(x, y))]

\* lines 55-62: the grid; no cell when cols or rows is not positive
MSEnter ==
    /\ ms_pc = "entry"
    /\ ms_pc' = IF rows <= 0 \/ cols <= 0 THEN "done" ELSE "loop"
    /\ UNCHANGED <<resolution, neg_zero, ms_center, cell_x, cell_y, ms_segments,
                   cell_log, evals>>
    /\ UNCHANGED <<poly_vars, shaft_vars, dcall, call_log, game_vars>>

\* lines 62-119: one cell, row by row; line 121 after the last one
MSCell ==
    /\ ms_pc = "loop"
    /\ ms_segments' = ms_segments \o CellPoints(cell_x, cell_y)
    /\ cell_log' = Append(cell_log, CellRecord(cell_x, cell_y))
    /\ evals' = evals + 5
    /\ cell_x' = IF cell_x + 1 < cols THEN cell_x + 1 ELSE 0
    /\ cell_y' = IF cell_x + 1 < cols THEN cell_y ELSE cell_y + 1
    /\ ms_pc' = IF cell_x + 1 >= cols /\ cell_y + 1 >= rows THEN "done" ELSE "loop"
    /\ UNCHANGED <<resolution, neg_zero, ms_center>>
    /\ UNCHANGED <<poly_vars, shaft_vars, dcall, call_log, game_vars>>

MSNext == MSEnter \/ MSCell

(***************************************************************************)
(* The three operations called one after the other on one MineShaft, as    *)
(* AppState does (one thread): up to MaxCalls calls in any order, each     *)
(* running to its return before the next.  call_log gets a record at each  *)
(* call (the arguments passed) and at each return (the arguments as they   *)
(* are then, the result), each with the MineShaft's fields at that time;   *)
(* its first record is the return of MineShaft::new.                       *)
(***************************************************************************)
MaxCalls == 3

CallShapes == {<<>>, <<<<0, 0>>, <<1, 1>>>>, <<<<0, 0>>, <<1, 0>>, <<1, 1>>>>}

\* the points the calls sample, and the noise source: one of three tables
CallPts == UNION {SamplePts(2, 2, 2, FALSE, c) : c \in Centers}
CallTables ==
    {[p \in CallPts |-> 0 - 3 * FUnit], [p \in CallPts |-> 0],
     [p \in CallPts |-> IF (p[1] + p[2]) % 4 = 0 THEN 0 - 3 * FUnit ELSE 0]}

Self == <<shaft, perlin>>
PolyArgs == [points |-> points, width |-> width,
             segments_per_arc |-> segments_per_arc, closed |-> closed]
MSArgs == [resolution |-> resolution, center |-> ms_center]
NumCalls == Cardinality({i \in 1..Len(call_log) : call_log[i].ev = "call"})
LogRecord(op, ev, args, out) ==
    [op |-> op, ev |-> ev, args |-> args, self |-> Self, out |-> out]

CallsInit ==
    /\ shaft = [width |-> 2, height |-> 2]
    /\ perlin \in CallTables
    /\ call_log = <<[op |-> "new", ev |-> "return", args |-> <<>>,
                     self |-> <<shaft, perlin>>, out |-> <<>>]>>
    /\ dcall = [called |-> FALSE, p |-> <<0, 0>>, d |-> 0]
    /\ points = <<>>
    /\ width = 1
    /\ segments_per_arc = 0
    /\ closed = FALSE
    /\ poly_pc = "idle"
    /\ line_i = 0
    /\ verts = <<>>
    /\ calls = <<>>
    /\ resolution = 2
    /\ neg_zero = FALSE
    /\ ms_center = <<0, 0>>
    /\ ms_pc = "idle"
    /\ cell_x = 0
    /\ cell_y = 0
    /\ ms_segments = <<>>
    /\ cell_log = <<>>
    /\ evals = 0
    /\ app = AppNew
    /\ app_hist = HistNew
    /\ vertices = NoVertices
    /\ scribe_call = NoCall
    /\ queued_log = <<>>
    /\ gl_log = <<>>
    /\ frame = FrameNew
    /\ frame_log = <<>>

NoCallRunning == poly_pc \in {"idle"} /\ ms_pc \in {"idle"}

\* polyline_to_triangles(points, width, segments_per_arc, closed) is called
PolyCall ==
    /\ NoCallRunning
    /\ NumCalls < MaxCalls
    /\ points' \in CallShapes
    /\ width' = 1
    /\ segments_per_arc' = 1
    /\ closed' \in BOOLEAN
    /\ poly_pc' = "entry"
    /\ line_i' = 0
    /\ verts' = <<>>
    /\ calls' = <<>>
    /\ call_log' = Append(call_log,
                          [op |-> "polyline_to_triangles", ev |-> "call",
                           args |-> [points |-> points', width |-> width',
                                     segments_per_arc |-> segments_per_arc',
                                     closed |-> closed'],
                           self |-> Self, out |-> <<>>])
    /\ UNCHANGED <<shaft_vars, dcall, ms_vars, game_vars>>

\* line 44 or 118: verts is returned
PolyReturn ==
    /\ poly_pc = "done"
    /\ poly_pc' = "idle"
    /\ call_log' = Append(call_log,
                          LogRecord("polyline_to_triangles", "return", PolyArgs, verts))
    /\ UNCHANGED <<points, width, segments_per_arc, closed, line_i, verts, calls>>
    /\ UNCHANGED <<shaft_vars, dcall, ms_vars, game_vars>>

\* marching_squares(resolution, center) is called
MSCall ==
    /\ NoCallRunning
    /\ NumCalls < MaxCalls
    /\ resolution' = 2
    /\ neg_zero' = FALSE
    /\ ms_center' \in Centers
    /\ ms_pc' = "entry"
    /\ cell_x' = 0
    /\ cell_y' = 0
    /\ ms_segments' = <<>>
    /\ cell_log' = <<>>
    /\ evals' = 0
    /\ call_log' = Append(call_log,
                          [op |-> "marching_squares", ev |-> "call",
                           args |-> [resolution |-> resolution', center |-> ms_center'],
                           self |-> Self, out |-> <<>>])
    /\ UNCHANGED <<poly_vars, shaft_vars, dcall, game_vars>>

\* line 121: segments is returned
MSReturn ==
    /\ ms_pc = "done"
    /\ ms_pc' = "idle"
    /\ call_log' = Append(call_log,
                          LogRecord("marching_squares", "return", MSArgs, ms_segments))
    /\ UNCHANGED <<resolution, neg_zero, ms_center, cell_x, cell_y, ms_segments,
                   cell_log, evals>>
    /\ UNCHANGED <<poly_vars, shaft_vars, dcall, game_vars>>

\* distance(p) is called and returns
DistCallLogged ==
    /\ NoCallRunning
    /\ NumCalls < MaxCalls
    /\ \E p \in {<<95, 156>>, <<96, 156>>} :
           /\ dcall' = [called |-> TRUE, p |-> p, d |-> distance(p)]
           /\ call_log' = call_log
                  \o <<LogRecord("distance", "call", p, 0),
                       LogRecord("distance", "return", p, distance(p))>>
    /\ UNCHANGED <<poly_vars, shaft_vars, ms_vars, game_vars>>

CallsNext ==
    \/ PolyCall \/ PolyEnter \/ PolyEdge \/ PolyFinish \/ PolyReturn
    \/ MSCall \/ MSEnter \/ MSCell \/ MSReturn
    \/ DistCallLogged

(***************************************************************************)
(* AppState: on_keydown, on_keyup, fixed_update.  A fixed_update gets the  *)
(* outcome of its collision test (distance < 7.0 and a normal) as an input *)
(* and the outcomes of its float arithmetic as a choice among the values   *)
(* the arithmetic can give.                                                *)
(***************************************************************************)
\* the key codes pressed: the three the game binds and one it does not
Keys == {"KeyW", "ArrowLeft", "KeyD", "Space"}

\* the largest depth reached
MaxDepth == 1

\* line 153: 2 seconds of invulnerability
InvulnerabilityTicks == 2 * 120

\* lines 87-92 and 107-112: the flags after a key goes down (to = TRUE) or
\* up (to = FALSE)
WithKey(a, key, to) ==
    [a EXCEPT !.thrust = IF key \in {"KeyW", "ArrowUp"} THEN to ELSE @,
              !.turn_left = IF key \in {"KeyA", "ArrowLeft"} THEN to ELSE @,
              !.turn_right = IF key \in {"KeyD", "ArrowRight"} THEN to ELSE @]

\* (variant: max_depth is kept when a game starts)
on_keydownKeepsMaxDepth(a, key) ==
    LET b == WithKey(a, key, TRUE)
    IN  IF b.game_state \in {"GameOver", "SplashScreen"}
        THEN [b EXCEPT !.game_state = "InGame",
                       !.player_ship = [transform |-> "IDENTITY", vel |-> "ZERO"],
                       !.health = 5]
        ELSE b

\* lines 86-104
on_keydown(a, key) ==
    LET b == WithKey(a, key, TRUE)
    IN  IF b.game_state \in {"GameOver", "SplashScreen"}
        THEN [b EXCEPT !.game_state = "InGame",
                       !.player_ship = [transform |-> "IDENTITY", vel |-> "ZERO"],
                       !.max_depth = 0,
                       !.health = 5]
        ELSE b

\* lines 106-113
on_keyup(a, key) == WithKey(a, key, FALSE)

\* what a value can be after an operation that changes it (changes) or
\* leaves it alone: from the neutral value to another one, from another one
\* to any
After(xs, neutral, other, changes) ==
    IF ~changes THEN xs
    ELSE UNION {IF x = neutral THEN {other} ELSE {neutral, other} : x \in xs}

\* (variant: damage whenever health is left, the invulnerability ignored)
DamagedAlways(a, hit) == hit /\ a.health > 0

\* line 145: the collision applies damage
Damaged(a, hit) == hit /\ a.invulnerability_ticks = 0 /\ a.health > 0

\* (variant: health is left at 0 when the game ends)
HealthAfterNoReset(a, hit) ==
    IF Damaged(a, hit) THEN a.health - 1 ELSE a.health

\* lines 146-152: health after the collision handling
HealthAfter(a, hit) ==
    IF Damaged(a, hit)
    THEN (IF a.health - 1 < 1 THEN 5 ELSE a.health - 1)
    ELSE a.health

\* line 149: the game ends in this fixed_update
GameEnds(a, hit) == Damaged(a, hit) /\ a.health - 1 < 1

\* lines 149-154, 159-161: invulnerability_ticks, set at a damage that does
\* not end the game and then counted down once
TicksAfter(a, hit) ==
    LET ticks == IF Damaged(a, hit) /\ ~GameEnds(a, hit)
                 THEN InvulnerabilityTicks
                 ELSE a.invulnerability_ticks
    IN  IF ticks > 0 THEN ticks - 1 ELSE ticks

\* lines 116-117, 123-124, 151, 167-172: the transforms the ship can have
\* after the translation by vel * dt, the push out of the wall, the reset
\* at the end of the game and the turns
TransformsAfter(a, hit) ==
    LET t1 == After({a.player_ship.transform}, "IDENTITY", "moved",
                    a.player_ship.vel # "ZERO")
        t2 == After(t1, "IDENTITY", "moved", hit)
        t3 == IF GameEnds(a, hit) THEN {"IDENTITY"} ELSE t2
        t4 == After(t3, "IDENTITY", "moved", a.turn_left)
    IN  After(t4, "IDENTITY", "moved", a.turn_right)

\* lines 128-139, 164-178: the velocities after the bounce, the thrust and
\* the gravity (the clamp keeps the direction)
VelsAfter(a, hit) ==
    LET v1 == IF hit /\ a.player_ship.vel # "ZERO" THEN {"ZERO", "moving"}
              ELSE {a.player_ship.vel}
        v2 == After(v1, "ZERO", "moving", a.thrust)
    IN  After(v2, "ZERO", "moving", TRUE)

\* line 181: max_depth.max(-pos.y as usize)
DepthsAfter(a, transform) ==
    IF transform = "IDENTITY" THEN {a.max_depth} ELSE a.max_depth..MaxDepth

\* lines 115-182
fixed_update(a, hit, transform, vel, depth) ==
    [a EXCEPT !.player_ship = [transform |-> transform, vel |-> vel],
              !.health = HealthAfter(a, hit),
              !.game_state = IF GameEnds(a, hit) THEN "GameOver" ELSE @,
              !.invulnerability_ticks = TicksAfter(a, hit),
              !.max_depth = depth]

\* the history after a fixed_update: the number of fixed_update calls since
\* the last one that decremented health without ending the game, and that
\* number (this call included) when health was decremented last
HistAfter(a, h, hit) ==
    LET nth == IF h.since_damage = NoDamage THEN NoDamage
               ELSE IF h.since_damage >= InvulnerabilityTicks THEN InvulnerabilityTicks
               ELSE h.since_damage + 1
    IN  [since_damage |-> IF Damaged(a, hit) /\ ~GameEnds(a, hit) THEN 0 ELSE nth,
         gap |-> IF Damaged(a, hit) THEN nth ELSE h.gap]

AppInit ==
    /\ app = AppNew
    /\ app_hist = HistNew
    \* the other operations at rest
    /\ vertices = NoVertices
    /\ scribe_call = NoCall
    /\ queued_log = <<>>
    /\ gl_log = <<>>
    /\ frame = FrameNew
    /\ frame_log = <<>>
    /\ shaft = [width |-> 0, height |-> 0]
    /\ perlin = <<>>
    /\ dcall = [called |-> FALSE, p |-> <<0, 0>>, d |-> 0]
    /\ points = <<>>
    /\ width = 1
    /\ segments_per_arc = 0
    /\ closed = FALSE
    /\ poly_pc = "idle"
    /\ line_i = 0
    /\ verts = <<>>
    /\ calls = <<>>
    /\ resolution = 2
    /\ neg_zero = FALSE
    /\ ms_center = <<0, 0>>
    /\ ms_pc = "idle"
    /\ cell_x = 0
    /\ cell_y = 0
    /\ ms_segments = <<>>
    /\ cell_log = <<>>
    /\ evals = 0
    /\ call_log = <<>>

not_app_vars == <<poly_vars, shaft_vars, dcall, ms_vars, call_log, scribe_vars,
                  frame_vars>>

KeyDown(key) ==
    /\ app' = on_keydown(app, key)
    /\ UNCHANGED app_hist
    /\ UNCHANGED not_app_vars

KeyUp(key) ==
    /\ app' = on_keyup(app, key)
    /\ UNCHANGED app_hist
    /\ UNCHANGED not_app_vars

FixedUpdate(hit) ==
    /\ \E transform \in TransformsAfter(app, hit) :
       \E vel \in VelsAfter(app, hit) :
       \E depth \in DepthsAfter(app, transform) :
           app' = fixed_update(app, hit, transform, vel, depth)
    /\ app_hist' = HistAfter(app, app_hist, hit)
    /\ UNCHANGED not_app_vars

AppKeyDown == \E key \in Keys : KeyDown(key)
AppKeyUp == \E key \in Keys : KeyUp(key)
AppFixedUpdate == \E hit \in BOOLEAN : FixedUpdate(hit)

AppNext == AppKeyDown \/ AppKeyUp \/ AppFixedUpdate

(***************************************************************************)
(* Scribe: draw_poly_line(points, width, closed, color) and render.        *)
(* vertices is the HashMap from colours to vertex lists, a function on the *)
(* colours that have an entry.  A draw_poly_line runs                      *)
(* polyline_to_triangles (the actions above) and then extends the entry of *)
(* its colour.  queued_log has one record per finished draw_poly_line, the *)
(* list it appended and the number of render calls before it; gl_log has   *)
(* one record per draw_arrays, the list drawn and the render call it was   *)
(* drawn in.                                                               *)
(***************************************************************************)
Colors == {"White", "Yellow", "PaleBlue"}

\* the polylines AppState::draw queues: a piece of a background cross
\* (open) and the ship (closed)
CrossPiece == <<<<-1, 0>>, <<1, 0>>>>
ScribeArgs == {<<CrossPiece, FALSE>>, <<Ship, TRUE>>}

\* at most MaxQueued draw_poly_line calls and MaxRenders render calls
MaxQueued == 3
MaxRenders == 2

ScribeInit ==
    /\ vertices = NoVertices
    /\ scribe_call = NoCall
    /\ queued_log = <<>>
    /\ gl_log = <<>>
    \* the other operations at rest
    /\ app = AppNew
    /\ app_hist = HistNew
    /\ frame = FrameNew
    /\ frame_log = <<>>
    /\ shaft = [width |-> 0, height |-> 0]
    /\ perlin = <<>>
    /\ dcall = [called |-> FALSE, p |-> <<0, 0>>, d |-> 0]
    /\ points = <<>>
    /\ width = 1
    /\ segments_per_arc = 0
    /\ closed = FALSE
    /\ poly_pc = "idle"
    /\ line_i = 0
    /\ verts = <<>>
    /\ calls = <<>>
    /\ resolution = 2
    /\ neg_zero = FALSE
    /\ ms_center = <<0, 0>>
    /\ ms_pc = "idle"
    /\ cell_x = 0
    /\ cell_y = 0
    /\ ms_segments = <<>>
    /\ cell_log = <<>>
    /\ evals = 0
    /\ call_log = <<>>

not_scribe_vars == <<shaft_vars, dcall, ms_vars, call_log, app_vars, frame_vars>>

\* line 106: draw_poly_line calls polyline_to_triangles(points, width, 12,
\* closed)
ScribeDrawPolyLine ==
    /\ scribe_call.pc = "idle"
    /\ poly_pc = "idle"
    /\ Len(queued_log) < MaxQueued
    /\ \E args \in ScribeArgs : points' = args[1] /\ closed' = args[2]
    /\ width' = 1
    /\ segments_per_arc' = SceneSeg
    /\ poly_pc' = "entry"
    /\ line_i' = 0
    /\ verts' = <<>>
    /\ calls' = <<>>
    /\ \E color \in Colors : scribe_call' = [scribe_call EXCEPT !.pc = "tessellating",
                                                                !.color = color]
    /\ UNCHANGED <<vertices, queued_log, gl_log>>
    /\ UNCHANGED not_scribe_vars

\* line 107: self.vertices.entry(color).or_default().extend(&vertices)
Extended(vs, color, list) ==
    [c \in DOMAIN vs \cup {color} |->
        IF c = color
        THEN (IF c \in DOMAIN vs THEN vs[c] ELSE <<>>) \o list
        ELSE vs[c]]

\* line 107, with the list polyline_to_triangles returned
ScribeExtend ==
    /\ scribe_call.pc = "tessellating"
    /\ poly_pc = "done"
    /\ vertices' = Extended(vertices, scribe_call.color, verts)
    /\ queued_log' = Append(queued_log,
                            [color |-> scribe_call.color, vertices |-> verts,
                             renders |-> scribe_call.renders])
    /\ scribe_call' = [scribe_call EXCEPT !.pc = "idle"]
    /\ poly_pc' = "idle"
    /\ UNCHANGED <<points, width, segments_per_arc, closed, line_i, verts, calls>>
    /\ UNCHANGED gl_log
    /\ UNCHANGED not_scribe_vars

\* the orders in which a HashMap's iterator can yield the keys
KeyOrders(keys) ==
    {o \in [1..Cardinality(keys) -> keys] :
        \A i, j \in 1..Cardinality(keys) : o[i] = o[j] => i = j}

\* (variant: the lists are kept)
AfterClearKept(vs) == vs

\* line 147: self.vertices.clear()
AfterClear(vs) == NoVertices

\* lines 110-148: one draw_arrays per entry of vertices, then clear()
ScribeRender ==
    /\ scribe_call.pc = "idle"
    /\ scribe_call.renders < MaxRenders
    /\ \E order \in KeyOrders(DOMAIN vertices) :
           gl_log' = gl_log \o
               [i \in 1..Len(order) |->
                   [render |-> scribe_call.renders + 1, color |-> order[i],
                    vertices |-> vertices[order[i]]]]
    /\ vertices' = AfterClear(vertices)
    /\ scribe_call' = [scribe_call EXCEPT !.renders = @ + 1]
    /\ UNCHANGED queued_log
    /\ UNCHANGED poly_vars
    /\ UNCHANGED not_scribe_vars

ScribeNext ==
    ScribeDrawPolyLine \/ PolyEnter \/ PolyEdge \/ PolyFinish \/ ScribeExtend
        \/ ScribeRender

(***************************************************************************)
(* main: the animation-frame callback (lines 75-85).  Time is counted in   *)
(* units of which UPDATE_DURATION is UpdateDuration; frame.now and         *)
(* frame.last are the callback's now and last.  frame_log has one record   *)
(* per call the callback makes: the frame, the call and now - last at the  *)
(* call.                                                                   *)
(***************************************************************************)
\* UPDATE_DURATION in time units
UpdateDuration == 2
\* the time between two callbacks is at most MaxDelta units
MaxDelta == 5
\* at most MaxFrames callbacks
MaxFrames == 3

FrameInit ==
    /\ frame = FrameNew
    /\ frame_log = <<>>
    /\ app = AppNew
    /\ app_hist = HistNew
    \* the other operations at rest
    /\ vertices = NoVertices
    /\ scribe_call = NoCall
    /\ queued_log = <<>>
    /\ gl_log = <<>>
    /\ shaft = [width |-> 0, height |-> 0]
    /\ perlin = <<>>
    /\ dcall = [called |-> FALSE, p |-> <<0, 0>>, d |-> 0]
    /\ points = <<>>
    /\ width = 1
    /\ segments_per_arc = 0
    /\ closed = FALSE
    /\ poly_pc = "idle"
    /\ line_i = 0
    /\ verts = <<>>
    /\ calls = <<>>
    /\ resolution = 2
    /\ neg_zero = FALSE
    /\ ms_center = <<0, 0>>
    /\ ms_pc = "idle"
    /\ cell_x = 0
    /\ cell_y = 0
    /\ ms_segments = <<>>
    /\ cell_log = <<>>
    /\ evals = 0
    /\ call_log = <<>>

not_frame_vars == <<poly_vars, shaft_vars, dcall, ms_vars, call_log, scribe_vars>>

Logged(call) ==
    Append(frame_log, [frame |-> frame.frames, call |-> call,
                       elapsed |-> frame.now - frame.last])

\* (variant: the loop runs while a whole interval has elapsed, >=)
UpdateDueAtWhole == frame.now - frame.last >= UpdateDuration

\* line 77: now.duration_since(last).as_secs_f32() > UPDATE_DURATION
UpdateDue == frame.now - frame.last > UpdateDuration

\* lines 75-76: the browser runs the callback; now = Instant::now()
FrameBegin ==
    /\ frame.pc = "idle"
    /\ frame.frames < MaxFrames
    /\ \E delta \in 0..MaxDelta :
           frame' = [frame EXCEPT !.pc = "loop", !.now = @ + delta,
                                  !.frames = @ + 1]
    /\ UNCHANGED <<frame_log, app_vars>>
    /\ UNCHANGED not_frame_vars

\* lines 77-80: one iteration of the loop: fixed_update(UPDATE_DURATION) and
\* last += UPDATE_DURATION
FrameUpdate ==
    /\ frame.pc = "loop"
    /\ UpdateDue
    /\ \E hit \in BOOLEAN :
           /\ \E transform \in TransformsAfter(app, hit) :
              \E vel \in VelsAfter(app, hit) :
              \E depth \in DepthsAfter(app, transform) :
                  app' = fixed_update(app, hit, transform, vel, depth)
           /\ app_hist' = HistAfter(app, app_hist, hit)
    /\ frame' = [frame EXCEPT !.last = @ + UpdateDuration]
    /\ frame_log' = Logged("fixed_update")
    /\ UNCHANGED not_frame_vars

\* line 82: the loop is over; draw (which reads AppState and leaves the
\* Scribe's map empty: its last Scribe call is render)
FrameDraw ==
    /\ frame.pc = "loop"
    /\ ~UpdateDue
    /\ frame' = [frame EXCEPT !.pc = "drawn"]
    /\ frame_log' = Logged("draw")
    /\ UNCHANGED app_vars
    /\ UNCHANGED not_frame_vars

\* line 84: request_animation_frame
FrameRequest ==
    /\ frame.pc = "drawn"
    /\ frame' = [frame EXCEPT !.pc = "idle"]
    /\ frame_log' = Logged("request_animation_frame")
    /\ UNCHANGED app_vars
    /\ UNCHANGED not_frame_vars

FrameNext == FrameBegin \/ FrameUpdate \/ FrameDraw \/ FrameRequest

(***************************************************************************)
(* Specifications: one per operation, the other operations' variables at   *)
(* rest.                                                                   *)
(***************************************************************************)
SpecPoly == PolyInit /\ [][PolyNext]_vars

SpecScene == SceneInit /\ [][PolyNext]_vars

SpecCalls == CallsInit /\ [][CallsNext]_vars

SpecDist == DistInit /\ [][DistCall]_vars

SpecMS == MSInit /\ [][MSNext]_vars

SpecLines == LinesInit /\ [][LinesNext]_vars

SpecApp == AppInit /\ [][AppNext]_vars

SpecScribe == ScribeInit /\ [][ScribeNext]_vars

SpecFrame == FrameInit /\ [][FrameNext]_vars

(***************************************************************************)
(* Measuring the output.  Numbers p + q*sqrt(2) are pairs <<p, q>>: four   *)
(* times a coordinate of a vertex whose angle is a multiple of 45 degrees  *)
(* is such a number, and the sign of a triangle's signed area              *)
(* (b - a) x (c - a) is then computed exactly.  A fan triangle             *)
(* (center, center + r*u(a0), center + r*u(a1)) has the signed area        *)
(* r*r*sin(a1 - a0)/2, whatever its angles.                                *)
(***************************************************************************)
ZAdd(x, y) == <<x[1] + y[1], x[2] + y[2]>>
ZSub(x, y) == <<x[1] - y[1], x[2] - y[2]>>
ZMul(x, y) == <<x[1] * y[1] + 2 * x[2] * y[2], x[1] * y[2] + x[2] * y[1]>>
ZScale(k, x) == <<k * x[1], k * x[2]>>
IntSign(n) == IF n > 0 THEN 1 ELSE IF n < 0 THEN -1 ELSE 0
ZSign(x) ==
    LET p == x[1]
        q == x[2]
    IN  IF p >= 0 /\ q >= 0 THEN IntSign(p + q)
        ELSE IF p <= 0 /\ q <= 0 THEN -1
        ELSE IF p > 0 THEN IntSign(p * p - 2 * q * q)
        ELSE IntSign(2 * q * q - p * p)

\* 2*cos and 2*sin of a multiple of 45 degrees
Cos2(ang) ==
    LET oct == NormAng(ang) \div AngUnit
    IN  CASE oct = 0 -> <<2, 0>>
          [] oct \in {1, 7} -> <<0, 1>>
          [] oct \in {2, 6} -> <<0, 0>>
          [] oct \in {3, 5} -> <<0, -1>>
          [] OTHER -> <<-2, 0>>
Sin2(ang) == Cos2(ang + 3 * Quarter)

OnOctant(v) == v.ang = NoDir \/ v.ang % AngUnit = 0

\* 4 * x and 4 * y of a vertex
X4(v) == IF v.ang = NoDir THEN <<4 * v.p[1], 0>>
         ELSE ZAdd(<<4 * v.p[1], 0>>, ZScale(v.w, Cos2(v.ang)))
Y4(v) == IF v.ang = NoDir THEN <<4 * v.p[2], 0>>
         ELSE ZAdd(<<4 * v.p[2], 0>>, ZScale(v.w, Sin2(v.ang)))

\* the sign of (t[2] - t[1]) x (t[3] - t[1]): 1 counter-clockwise with x to
\* the right and y up, -1 clockwise, 0 for no area
AreaSign(t) ==
    IF OnOctant(t[1]) /\ OnOctant(t[2]) /\ OnOctant(t[3])
    THEN ZSign(ZSub(ZMul(ZSub(X4(t[2]), X4(t[1])), ZSub(Y4(t[3]), Y4(t[1]))),
                    ZMul(ZSub(Y4(t[2]), Y4(t[1])), ZSub(X4(t[3]), X4(t[1])))))
    ELSE IF t[2].ang = NoDir \/ t[3].ang = NoDir THEN 0
    ELSE SinSign(t[3].ang - t[2].ang)

NumTriangles == Len(verts) \div 3
Triangle(k) == <<verts[3 * k + 1], verts[3 * k + 2], verts[3 * k + 3]>>

CallsOf(kind) == {k \in 1..Len(calls) : calls[k].kind = kind}
CallsAt(kind, at) == {k \in CallsOf(kind) : calls[k].at = at}

\* the number of vertices a call appends, and where a call's vertices start
CallSize(c) == IF c.kind = "quad" THEN 6 ELSE 3 * segments_per_arc
RECURSIVE CallOffset(_)
CallOffset(k) == IF k <= 1 THEN 0 ELSE CallOffset(k - 1) + CallSize(calls[k - 1])

\* the sign of cross(arrive, leave) at a join
TurnSign(c) ==
    IF c.arrive.ang = NoDir \/ c.leave.ang = NoDir
    THEN 0
    ELSE SinSign(c.leave.ang - c.arrive.ang)

(***************************************************************************)
(* Claims about polyline_to_triangles.                                     *)
(***************************************************************************)

\* C1: a closed polyline of N >= 3 points with S >= 1 arc segments returns
\* exactly 2N + N*S triangles: one quad per edge (the closing edge too), one
\* join of S triangles at each of the N vertices (points[0] too), no caps.
C1_ClosedTriangleCount ==
    (poly_pc = "done" /\ closed /\ NumPoints >= 3 /\ segments_per_arc >= 1) =>
        /\ Len(verts) = 3 * (2 * NumPoints + NumPoints * segments_per_arc)
        /\ \A e \in 0..(NumPoints - 1) : Cardinality(CallsAt("quad", e)) = 1
        /\ \A v \in 0..(NumPoints - 1) : Cardinality(CallsAt("join", v)) = 1
        /\ Cardinality(CallsOf("quad")) = NumPoints
        /\ Cardinality(CallsOf("join")) = NumPoints
        /\ CallsOf("cap") = {}

C1_Witness ==
    /\ poly_pc = "done" /\ closed /\ NumPoints = 4 /\ segments_per_arc = 2
    /\ NumTriangles = 16
    /\ Cardinality(CallsAt("join", 0)) = 1

\* C2: an open polyline of N >= 2 points with S >= 1 arc segments returns
\* exactly 2(N-1) + (N-2)*S + 2*S triangles: one quad per edge, one join per
\* interior vertex, one cap at the first and one at the last point.
C2_OpenTriangleCount ==
    (poly_pc = "done" /\ ~closed /\ NumPoints >= 2 /\ segments_per_arc >= 1) =>
        /\ Len(verts) = 3 * (2 * (NumPoints - 1)
                             + (NumPoints - 2) * segments_per_arc
                             + 2 * segments_per_arc)
        /\ \A e \in 0..(NumPoints - 2) : Cardinality(CallsAt("quad", e)) = 1
        /\ Cardinality(CallsOf("quad")) = NumPoints - 1
        /\ \A v \in 1..(NumPoints - 2) : Cardinality(CallsAt("join", v)) = 1
        /\ Cardinality(CallsOf("join")) = NumPoints - 2
        /\ Cardinality(CallsAt("cap", 0)) = 1
        /\ Cardinality(CallsAt("cap", NumPoints - 1)) = 1
        /\ Cardinality(CallsOf("cap")) = 2
        /\ NumPoints = 2 => NumTriangles = 2 + 2 * segments_per_arc

C2_Witness ==
    /\ poly_pc = "done" /\ ~closed /\ NumPoints = 2 /\ segments_per_arc = 3
    /\ NumTriangles = 8
    /\ CallsOf("join") = {}

\* C3: with 0 or 1 points the call returns the empty list straight from the
\* early return, whatever closed, width and segments_per_arc are: it emits no
\* quad, join or cap.
C3_FewPointsEmpty ==
    (NumPoints < 2 /\ poly_pc # "entry") =>
        /\ poly_pc = "done"
        /\ verts = <<>>
        /\ calls = <<>>

C3_Witness ==
    /\ poly_pc = "done" /\ NumPoints = 1 /\ closed /\ segments_per_arc = 2
    /\ verts = <<>>

\* C8 (as claimed): at every join, a left turn (cross(dir_in, dir_out) > 0,
\* dir_in arriving, dir_out leaving) sweeps an angle >= 0, a right turn an
\* angle <= 0, and no sweep exceeds a full turn.
C8_SweepSignMatchesTurn ==
    \A k \in CallsOf("join") :
        /\ TurnSign(calls[k]) > 0 => calls[k].angle >= 0
        /\ TurnSign(calls[k]) < 0 => calls[k].angle <= 0
        /\ calls[k].angle >= -2 * PI /\ calls[k].angle <= 2 * PI

\* C9 (as claimed): all triangles of non-zero area have the same winding.
C9_UniformWinding ==
    \A j, k \in 0..(NumTriangles - 1) :
        (AreaSign(Triangle(j)) # 0 /\ AreaSign(Triangle(k)) # 0)
            => AreaSign(Triangle(j)) = AreaSign(Triangle(k))

\* C10 (as claimed): the quad of an edge (p_i, p_i+1) of non-zero length is
\* (a, b, c), (c, b, d) with a = p_i + n*hw, b = p_i - n*hw, c = p_i+1 + n*hw,
\* d = p_i+1 - n*hw, n = (-dir.y, dir.x), and both triangles are clockwise
\* with x to the right and y up (negative signed area).
C10_QuadClockwise ==
    \A k \in CallsOf("quad") :
        LET e == calls[k].at
            p0 == Pt(e)
            p1 == IF e < NumPoints - 1 THEN Pt(e + 1) ELSE Pt(0)
            n == NormAng(calls[k].arrive.ang + Quarter)
            a == [p |-> p0, ang |-> n, w |-> width]
            b == [p |-> p0, ang |-> NormAng(n + Half), w |-> width]
            c == [p |-> p1, ang |-> n, w |-> width]
            d == [p |-> p1, ang |-> NormAng(n + Half), w |-> width]
            o == CallOffset(k)
        IN  p0 # p1 =>
                /\ SubSeq(verts, o + 1, o + 6) = <<a, b, c, c, b, d>>
                /\ AreaSign(<<a, b, c>>) = -1
                /\ AreaSign(<<c, b, d>>) = -1

(***************************************************************************)
(* Measuring marching_squares and distance.                                *)
(***************************************************************************)
\* the cells of the history
Cells == {cell_log[i] : i \in 1..Len(cell_log)}

\* the k-th point (1-based) the cell pushed, and the edge it lies on
PointOf(c, k) == ms_segments[c.first + k]
EdgeOf(c, k) == c.edges[(k + 1) \div 2][IF k % 2 = 1 THEN 1 ELSE 2]

\* the ends of edge e (0..3) of a cell in the order interp gets them, and
\* the samples there
EdgeA(c, e) == c.p[e + 1]
EdgeB(c, e) == c.p[((e + 1) % 4) + 1]
EdgeDa(c, e) == c.d[e + 1]
EdgeDb(c, e) == c.d[((e + 1) % 4) + 1]

\* a corner in grid steps
OnGrid(p) == [x |-> p[1] * CoordRes, y |-> p[2] * CoordRes]

\* the edges a pair joins, and those meeting at corner k (0..3)
PairEdges(pair) == {pair[1], pair[2]}
EdgesAt(k) == {k, (k + 3) % 4}
PairSets(pairs) == {PairEdges(pairs[i]) : i \in 1..Len(pairs)}

\* the window is degenerate: resolution <= 0, or a zero number of cells
Degenerate ==
    \/ resolution <= 0
    \/ shaft.width \div resolution = 0
    \/ shaft.height \div resolution = 0

C5_DistanceIsUnionMin ==
    dcall.called =>
        LET p == dcall.p
            axis == Abs(p[1] - Centerline(p[2]))
            primary == (axis - shaft_radius) * FUnit
            secondary == (axis - 14) * FUnit
            starting == (Length(p) - 100) * FUnit
            n == noise(p)
        IN  /\ dcall.d \in {secondary, starting, primary + n}
            /\ dcall.d <= secondary
            /\ dcall.d <= starting
            /\ dcall.d <= primary + n

\* a call with noise where the noisy primary term is the only minimum
C5_Witness ==
    /\ dcall.called
    /\ noise(dcall.p) > 0
    /\ dcall.d = shaft_distance(dcall.p, shaft_radius) + noise(dcall.p)
    /\ dcall.d < secondary_shaft_distance(dcall.p)
    /\ dcall.d < starting_zone_distance(dcall.p)

\* C6: for the indices 5 and 10 resolve_case returns two pairs, each joining
\* the two edges that meet at one corner; with the center inside the two cut
\* corners are the outside ones, with the center outside the inside ones; the
\* pairing differs between the two center flags, and resolve_case(10, c)
\* joins the same edges as resolve_case(5, not c).
C6_AmbiguousCasesFollowCenter ==
    /\ \A c \in Cells :
           c.index \in {5, 10} =>
               /\ Len(c.edges) = 2
               /\ c.n = 4
               /\ PairSets(c.edges) =
                      {EdgesAt(k) : k \in {j \in 0..3 : (c.d[j + 1] < 0) # (c.dc < 0)}}
    /\ \A flag \in BOOLEAN :
           /\ PairSets(resolve_case(10, flag)) = PairSets(resolve_case(5, ~flag))
           /\ PairSets(resolve_case(5, flag)) # PairSets(resolve_case(5, ~flag))
           /\ PairSets(resolve_case(10, flag)) # PairSets(resolve_case(10, ~flag))

\* a returned cell of index 5 with the center outside, and one of index 10
\* with the center inside
C6_Witness ==
    /\ ms_pc = "done"
    /\ \E c \in Cells : c.index = 5 /\ c.dc >= 0 /\ c.n = 4
    /\ \E c \in Cells : c.index = 10 /\ c.dc < 0 /\ c.n = 4

\* t of interp as a fraction <<numerator, denominator>>
ExactT(da, db) ==
    IF Abs(da - db) * EpsDen < FUnit THEN <<1, 2>>
    ELSE IF db - da > 0 THEN <<0 - da, db - da>>
    ELSE <<da, da - db>>

\* the f32 sum a + (b - a) * t is a itself: the offset is within half a step
\* of the representable coordinates
RoundsToA(a, b, t) ==
    2 * (Abs(b[1] - a[1]) + Abs(b[2] - a[2])) * t[1] * CoordRes <= t[2]

\* C7 (amended): every returned point is a + t * (b - a), in f32, for an
\* edge (a, b) of the cell that pushed it with 0 <= t <= 1, and it is a
\* corner of the cell only if the sample at that corner is exactly 0 or the
\* offset from that corner is within half a step of the f32 coordinates
\* (the sum rounds to the corner).
C7_PointsInterpolateEdges ==
    \A c \in Cells : \A k \in 1..c.n :
        LET e == EdgeOf(c, k)
            a == EdgeA(c, e)
            b == EdgeB(c, e)
            da == EdgeDa(c, e)
            db == EdgeDb(c, e)
            t == ExactT(da, db)
            q == PointOf(c, k)
        IN  /\ 0 <= t[1] /\ t[1] <= t[2]
            /\ q = [x |-> Lerp(a[1], b[1], t[1], t[2]),
                    y |-> Lerp(a[2], b[2], t[1], t[2])]
            /\ q = OnGrid(a) => (da = 0 \/ RoundsToA(a, b, t))
            /\ q = OnGrid(b) => (db = 0 \/ RoundsToA(b, a, <<t[2] - t[1], t[2]>>))
            /\ \A j \in 1..4 : q = OnGrid(c.p[j]) => (c.p[j] = a \/ c.p[j] = b)

\* a returned point on a corner whose sample is not 0, and one on a corner
\* whose sample is 0
C7_Witness ==
    /\ ms_pc = "done"
    /\ \E c \in Cells : \E k \in 1..c.n :
           PointOf(c, k) = OnGrid(EdgeA(c, EdgeOf(c, k)))
               /\ EdgeDa(c, EdgeOf(c, k)) # 0
    /\ \E c \in Cells : \E k \in 1..c.n :
           PointOf(c, k) = OnGrid(EdgeA(c, EdgeOf(c, k)))
               /\ EdgeDa(c, EdgeOf(c, k)) = 0

\* C7 (as claimed): a returned point is a corner of its cell only if the
\* sample at that corner is exactly 0.
C7_CornerOnlyAtZeroSample ==
    \A c \in Cells : \A k \in 1..c.n : \A j \in 1..4 :
        PointOf(c, k) = OnGrid(c.p[j]) => c.d[j] = 0

(***************************************************************************)
(* Claims C11 to C20.                                                      *)
(***************************************************************************)
\* a vertex whose offset is along an axis is at (x4 / 4, y4 / 4)
IsAt4(v, x4, y4) == OnOctant(v) /\ X4(v) = <<x4, 0>> /\ Y4(v) = <<y4, 0>>

\* C11: the closed polyline [(-7,-7), (7,-7), (0,7)] with width 1.0 and 12
\* arc segments returns exactly 42 triangles, the first two (a, b, c) and
\* (c, b, d) with a = (-7,-6.5), b = (-7,-7.5), c = (7,-6.5), d = (7,-7.5).
C11_ShipScenario ==
    (poly_pc = "done" /\ points = Ship /\ width = 1 /\ segments_per_arc = SceneSeg
         /\ closed) =>
        /\ Len(verts) = 3 * 42
        /\ IsAt4(verts[1], -28, -26) /\ IsAt4(verts[2], -28, -30)
        /\ IsAt4(verts[3], 28, -26)
        /\ IsAt4(verts[4], 28, -26) /\ IsAt4(verts[5], -28, -30)
        /\ IsAt4(verts[6], 28, -30)

C11_Witness ==
    /\ poly_pc = "done" /\ points = Ship /\ width = 1
    /\ segments_per_arc = SceneSeg /\ closed
    /\ NumTriangles = 42
    /\ Cardinality(CallsOf("join")) = 3

\* C12: for every p with |p.x - centerline(p.y)| < 14 and every value of
\* the noise, distance(p) < 0.
C12_ClearanceAlwaysInside ==
    (dcall.called /\ Abs(dcall.p[1] - Centerline(dcall.p[2])) < 14)
        => dcall.d < 0

\* a point of the clearance corridor outside the starting zone, where the
\* noise closes the primary corridor
C12_Witness ==
    /\ dcall.called
    /\ Abs(dcall.p[1] - Centerline(dcall.p[2])) < 14
    /\ shaft_distance(dcall.p, shaft_radius) + noise(dcall.p) > 0
    /\ starting_zone_distance(dcall.p) > 0
    /\ dcall.d < 0

\* C13: with a noise of 0, distance((0,0)) = -100, the starting-zone term,
\* the smallest of the three (secondary -14, primary -60).
C13_OriginInStartingZone ==
    (dcall.called /\ dcall.p = <<0, 0>> /\ perlin[<<0, 0>>] = 0) =>
        /\ dcall.d = (0 - 100) * FUnit
        /\ starting_zone_distance(dcall.p) = (0 - 100) * FUnit
        /\ secondary_shaft_distance(dcall.p) = (0 - 14) * FUnit
        /\ shaft_distance(dcall.p, shaft_radius) + noise(dcall.p) = (0 - 60) * FUnit

C13_Witness ==
    /\ dcall.called /\ dcall.p = <<0, 0>> /\ perlin[<<0, 0>>] = 0
    /\ dcall.d = (0 - 100) * FUnit

\* the returns in the history
Returns == {i \in 2..Len(call_log) : call_log[i].ev = "return"}

C15_NeverPanics ==
    /\ poly_pc \in {"entry", "loop", "done"}
    /\ poly_pc = "entry" => (TooFewPoints \/ ~EnterPanics)
    /\ poly_pc = "loop" =>
           /\ line_i <= line_count
           /\ line_i < line_count => ~EdgePanics(line_i)
           /\ line_i = line_count => ~FinishPanics

\* the closed polyline of two points has returned: points.len() - 2 = 0 and
\* last - 1 = 0
C15_Witness ==
    /\ poly_pc = "done" /\ NumPoints = 2 /\ closed /\ segments_per_arc = 0
    /\ Cardinality(CallsOf("quad")) = 2
    /\ Cardinality(CallsOf("join")) = 2

\* the number of segments the claim gives a case index
SegCount(index) ==
    IF index \in {0, 15} THEN 0 ELSE IF index \in {5, 10} THEN 2 ELSE 1

\* the number of segments of the first k cells of the history
RECURSIVE SegSum(_)
SegSum(k) == IF k = 0 THEN 0 ELSE SegSum(k - 1) + SegCount(cell_log[k].index)

\* C16: a cell contributes no segment for the case indices 0 and 15, two for
\* 5 and 10 and one for every other; the list has twice as many points as
\* the cells visited have segments, an even number, and points 2k and 2k+1
\* are the two crossing points of one pair of edges of one cell.
C16_SegmentsPerCase ==
    /\ Len(ms_segments) = 2 * SegSum(Len(cell_log))
    /\ Len(ms_segments) % 2 = 0
    /\ \A i \in 1..Len(cell_log) :
           LET c == cell_log[i]
           IN  /\ c.index \in 0..15
               /\ c.n = 2 * SegCount(c.index)
               /\ c.first = 2 * SegSum(i - 1)
               /\ Len(c.edges) = SegCount(c.index)
               /\ \A m \in 1..SegCount(c.index) :
                      /\ ms_segments[c.first + 2 * m - 1]
                             = CellEdges(c.p, c.d)[c.edges[m][1] + 1]
                      /\ ms_segments[c.first + 2 * m]
                             = CellEdges(c.p, c.d)[c.edges[m][2] + 1]

\* a returned list of three segments: two from a cell of index 5 or 10, one
\* from another cell
C16_Witness ==
    /\ ms_pc = "done"
    /\ Len(ms_segments) = 6
    /\ \E c1, c2 \in Cells :
           c1.index \in {5, 10} /\ c1.n = 4 /\ c2.index \notin {0, 5, 10, 15} /\ c2.n = 2

\* the vertex v + s * perpendicular(dir) * half_width
SideVertex(v, dir, sgn) ==
    [p |-> v, w |-> width,
     ang |-> NormAng(dir.ang + Quarter + (IF sgn < 0 THEN Half ELSE 0))]

\* C17: at a join with a left or right turn between two edges of non-zero
\* length the arc goes the short way (|sweep| <= pi) on the outer side: its
\* first and last samples are v + s*n_in*hw and v + s*n_out*hw, n_in and
\* n_out the perpendiculars of the arriving and the leaving direction, s = -1
\* at a left turn and +1 at a right turn, the outer corners of the two
\* adjoining quads and not their inner corners.
C17_JoinArcOuterSide ==
    \A k \in CallsOf("join") :
        LET c == calls[k]
            v == Pt(c.at)
            sgn == 0 - TurnSign(c)
            o == CallOffset(k)
            first == verts[o + 2]
            last == verts[o + 3 * segments_per_arc]
            ends == {SideVertex(v, c.arrive, sgn), SideVertex(v, c.leave, sgn)}
            inner == {SideVertex(v, c.arrive, 0 - sgn), SideVertex(v, c.leave, 0 - sgn)}
        IN  (TurnSign(c) # 0 /\ segments_per_arc >= 1 /\ Len(verts) >= o + 3 * segments_per_arc)
                => /\ c.angle <= PI /\ c.angle >= 0 - PI
                   /\ {first, last} = ends
                   /\ first \notin inner /\ last \notin inner
                   /\ \A t \in 0..(segments_per_arc - 1) :
                          verts[o + 3 * t + 1] = [p |-> v, ang |-> NoDir, w |-> 0]

\* a returned polyline with a left turn and a right turn, two segments per arc
C17_Witness ==
    /\ poly_pc = "done" /\ segments_per_arc = 2
    /\ \E j, k \in CallsOf("join") : TurnSign(calls[j]) > 0 /\ TurnSign(calls[k]) < 0

\* the sign of cos(a) for an angle a in angle units
CosSign(a) == SinSign(a + Quarter)

\* the direction away from the line at a cap: the reverse of the first
\* edge's direction at points[0], the last edge's direction at points[last]
Outward(c) == IF c.at = 0 THEN Neg(c.arrive) ELSE c.arrive

\* C18: for an open polyline whose first and last edges have non-zero
\* length each cap fan spans a half-turn between the two side points
\* v - n*hw and v + n*hw of its end point, and every arc sample s has
\* dot(s - v, outward) >= 0; a closed polyline gets no cap.
C18_CapsBulgeOutward ==
    /\ (closed /\ poly_pc = "done") => CallsOf("cap") = {}
    /\ \A k \in CallsOf("cap") :
           LET c == calls[k]
               v == Pt(c.at)
               o == CallOffset(k)
               sides == {SideVertex(v, c.arrive, 1), SideVertex(v, c.arrive, -1)}
           IN  (c.arrive.ang # NoDir /\ segments_per_arc >= 1
                    /\ Len(verts) >= o + 3 * segments_per_arc)
                   => /\ ~closed
                      /\ c.at \in {0, NumPoints - 1}
                      /\ c.angle \in {PI, 0 - PI}
                      /\ {verts[o + 2], verts[o + 3 * segments_per_arc]} = sides
                      /\ \A t \in 0..(segments_per_arc - 1) : \A e \in {2, 3} :
                             LET smp == verts[o + 3 * t + e]
                             IN  /\ smp.p = v /\ smp.w = width
                                 /\ CosSign(smp.ang - Outward(c).ang) >= 0

\* an open polyline with both caps of three segments, whose middle samples
\* are strictly off the line
C18_Witness ==
    /\ poly_pc = "done" /\ ~closed /\ segments_per_arc = 3
    /\ Cardinality(CallsOf("cap")) = 2
    /\ \A k \in CallsOf("cap") :
           /\ calls[k].arrive.ang # NoDir
           /\ CosSign(verts[CallOffset(k) + 3].ang - Outward(calls[k]).ang) = 1

\* the end point of edge k (the closing edge of a closed polyline ends at
\* points[0])
EdgeEnd(k) == IF k < NumPoints - 1 THEN Pt(k + 1) ELSE Pt(0)

\* the number of triangles of a polyline of n >= 2 points, from n, the
\* segments per arc and closed alone
CountFor(n, s, cl) ==
    IF cl THEN 2 * n + n * s ELSE 2 * (n - 1) + (n - 2) * s + 2 * s

\* C19: an edge whose two end points coincide does not make the call fail
\* and is not skipped: its quad is still two triangles, all six vertices
\* equal to the point, and the number of triangles returned is the one a
\* polyline of the same length with distinct points gets.
C19_ZeroEdgeStillEmitted ==
    /\ NumPoints >= 2 => poly_pc # "panic"
    /\ \A k \in CallsOf("quad") :
           LET c == calls[k]
               o == CallOffset(k)
           IN  (Pt(c.at) = EdgeEnd(c.at) /\ Len(verts) >= o + 6)
                   => \A e \in 1..6 :
                          verts[o + e] = [p |-> Pt(c.at), ang |-> NoDir, w |-> 0]
    /\ (poly_pc = "done" /\ NumPoints >= 2)
           => /\ NumTriangles = CountFor(NumPoints, segments_per_arc, closed)
              /\ Len(verts) = 3 * NumTriangles
              /\ \A e \in 0..(line_count - 1) : Cardinality(CallsAt("quad", e)) = 1

\* an open polyline of three points whose first two coincide and whose
\* second edge has length, returned with its 2*2 + 3*2 triangles
C19_Witness ==
    /\ poly_pc = "done" /\ ~closed /\ NumPoints = 3 /\ segments_per_arc = 2
    /\ Pt(0) = Pt(1) /\ Pt(1) # Pt(2)
    /\ NumTriangles = 10

\* |da - db| < 0.0001, in field units
NearlyEqual(da, db) == Abs(da - db) * EpsDen < FUnit

\* coordinate q (in grid steps) is the f32 neighbour of the zero of the
\* linear interpolant da + t * (db - da) along a..b: the zero is within half
\* a step of q
AtZeroOfInterpolant(q, a, da, b, db) ==
    2 * Abs((q - a * CoordRes) * (db - da) + da * (b - a) * CoordRes)
        <= Abs(db - da)

\* C20: the crossing point computed for an edge with ends (a, da), (b, db)
\* is the midpoint (a + b) / 2 when |da - db| < 0.0001 and otherwise
\* a + t * (b - a) with t = (0 - da) / (db - da), the zero of the linear
\* interpolant of the two samples; the points a cell returns are these.
C20_CrossingPoint ==
    \A c \in Cells :
        /\ \A e \in 0..3 :
               LET a == EdgeA(c, e)
                   b == EdgeB(c, e)
                   da == EdgeDa(c, e)
                   db == EdgeDb(c, e)
                   q == CellEdges(c.p, c.d)[e + 1]
               IN  IF NearlyEqual(da, db)
                   THEN /\ 2 * q.x = (a[1] + b[1]) * CoordRes
                        /\ 2 * q.y = (a[2] + b[2]) * CoordRes
                   ELSE /\ AtZeroOfInterpolant(q.x, a[1], da, b[1], db)
                        /\ AtZeroOfInterpolant(q.y, a[2], da, b[2], db)
        /\ \A k \in 1..c.n : PointOf(c, k) = CellEdges(c.p, c.d)[EdgeOf(c, k) + 1]

\* a returned point on an edge whose samples differ by less than 0.0001 but
\* are not equal, and a returned point off the midpoint of its edge
C20_Witness ==
    /\ ms_pc = "done"
    /\ \E c \in Cells : \E k \in 1..c.n :
           LET e == EdgeOf(c, k)
           IN  /\ EdgeDa(c, e) # EdgeDb(c, e)
               /\ NearlyEqual(EdgeDa(c, e), EdgeDb(c, e))
    /\ \E c \in Cells : \E k \in 1..c.n :
           LET e == EdgeOf(c, k)
               q == PointOf(c, k)
           IN  /\ ~NearlyEqual(EdgeDa(c, e), EdgeDb(c, e))
               /\ 2 * q.x # (EdgeA(c, e)[1] + EdgeB(c, e)[1]) * CoordRes

(***************************************************************************)
(* Claims C21 to C30.                                                      *)
(***************************************************************************)
\* floor(a / h) as the cast to i32 gives it: saturated at i32::MAX
FloorSaturated(a, h) == Min(a \div h, I32Max)

\* C21 (amended): for resolution h > 0 a call visits exactly cols * rows
\* cells, cols = floor(width / h) and rows = floor(height / h) each
\* saturated at i32::MAX, in row-major order, one more cell per step until
\* the last, and evaluates the field exactly 5 times per visited cell.
C21_CellsVisitedSaturated ==
    resolution > 0 =>
        LET c == FloorSaturated(shaft.width, resolution)
            r == FloorSaturated(shaft.height, resolution)
            n == Len(cell_log)
        IN  /\ n <= c * r
            /\ evals = 5 * n
            /\ ms_pc = "done" => n = c * r
            /\ ms_pc = "loop" => (n < c * r /\ cell_x = n % c /\ cell_y = n \div c)
            /\ \A i \in 1..n :
                   cell_log[i].x = (i - 1) % c /\ cell_log[i].y = (i - 1) \div c

\* a finished call over 2 x 2 cells, visited (0,0), (1,0), (0,1), (1,1) with
\* 20 evaluations
C21_Witness ==
    /\ ms_pc = "done" /\ resolution = 2 /\ shaft.width = 4 /\ shaft.height = 4
    /\ Len(cell_log) = 4 /\ evals = 20
    /\ cell_log[2].x = 1 /\ cell_log[2].y = 0
    /\ cell_log[3].x = 0 /\ cell_log[3].y = 1

\* C21 (as claimed): for every resolution h > 0 a call ends having visited
\* exactly floor(width / h) * floor(height / h) cells.
C21_FloorCellCount ==
    (resolution > 0 /\ ms_pc = "done")
        => Len(cell_log) = (shaft.width \div resolution) * (shaft.height \div resolution)

\* the inside flag of corner k (0..3) under a case index, and whether edge
\* e (corners e and e + 1 mod 4) has two corners of different flags
InsideBit(index, k) == (index \div (2 ^ k)) % 2 = 1
SignChange(index, e) == InsideBit(index, e) # InsideBit(index, (e + 1) % 4)

\* the pairs of a list that use edge e
PairsUsing(pairs, e) == {i \in 1..Len(pairs) : e \in PairEdges(pairs[i])}

UsesSignChangeEdges(pairs, index) ==
    /\ \A i \in 1..Len(pairs) :
           /\ pairs[i][1] \in 0..3 /\ pairs[i][2] \in 0..3
           /\ pairs[i][1] # pairs[i][2]
    /\ \A e \in 0..3 :
           Cardinality(PairsUsing(pairs, e)) = IF SignChange(index, e) THEN 1 ELSE 0

\* C22: for every case index 0..15 and either center flag the pairs of
\* resolve_case use exactly the edges whose two corners have different
\* inside flags: each such edge in exactly one pair, no other edge, and no
\* pair joins an edge to itself; so for the pairs of every visited cell,
\* whose index has bit k set exactly when the sample at corner k is < 0.
C22_PairsUseSignChangeEdges ==
    /\ \A index \in 0..15 : \A center_sign \in BOOLEAN :
           UsesSignChangeEdges(resolve_case(index, center_sign), index)
    /\ \A c \in Cells :
           /\ \A k \in 0..3 : InsideBit(c.index, k) <=> (c.d[k + 1] < 0)
           /\ UsesSignChangeEdges(c.edges, c.index)
           /\ \A e \in 0..3 :
                  (PairsUsing(c.edges, e) # {})
                      <=> ((EdgeDa(c, e) < 0) # (EdgeDb(c, e) < 0))

\* a visited cell whose corners 0 and 1 are inside and 2 and 3 outside
\* (case 3), with one segment between its edges 3 and 1
C22_Witness ==
    /\ ms_pc = "done"
    /\ \E c \in Cells :
           /\ c.index = 3 /\ c.edges = <<<<3, 1>>>> /\ c.n = 2
           /\ c.d[1] < 0 /\ c.d[2] < 0 /\ c.d[3] >= 0 /\ c.d[4] >= 0

\* cell c2 is the right neighbour of c1 (its edge 3 is c1's edge 1), or the
\* upper neighbour (its edge 0 is c1's edge 2)
RightOf(c1, c2) == c2.x = c1.x + 1 /\ c2.y = c1.y
Above(c1, c2) == c2.x = c1.x /\ c2.y = c1.y + 1

\* edge e1 of c1 and edge e2 of c2 are one edge taken in opposite orders,
\* with the same samples and the same crossing point
SameCrossing(c1, e1, c2, e2) ==
    /\ EdgeA(c1, e1) = EdgeB(c2, e2) /\ EdgeB(c1, e1) = EdgeA(c2, e2)
    /\ EdgeDa(c1, e1) = EdgeDb(c2, e2) /\ EdgeDb(c1, e1) = EdgeDa(c2, e2)
    /\ CellEdges(c1.p, c1.d)[e1 + 1] = CellEdges(c2.p, c2.d)[e2 + 1]
    /\ \A j \in 1..c1.n : \A k \in 1..c2.n :
           (EdgeOf(c1, j) = e1 /\ EdgeOf(c2, k) = e2)
               => PointOf(c1, j) = PointOf(c2, k)

\* C23: interp(a, da, b, db) = interp(b, db, a, da), and two adjacent cells
\* sample the same two corners on their common edge, so the crossing point
\* of the common edge is the same point in both cells and the points they
\* return on it coincide (the coordinates computed without intermediate
\* rounding).
C23_SharedEdgeSamePoint ==
    /\ \A c \in Cells : \A e \in 0..3 :
           interp(EdgeA(c, e), EdgeDa(c, e), EdgeB(c, e), EdgeDb(c, e))
               = interp(EdgeB(c, e), EdgeDb(c, e), EdgeA(c, e), EdgeDa(c, e))
    /\ \A c1, c2 \in Cells :
           /\ RightOf(c1, c2) => SameCrossing(c1, 1, c2, 3)
           /\ Above(c1, c2) => SameCrossing(c1, 2, c2, 0)

\* two cells side by side that both return a point on their common edge,
\* strictly inside the edge and off its midpoint
C23_Witness ==
    /\ ms_pc = "done" /\ resolution > 0
    /\ \E c1, c2 \in Cells : \E j \in 1..c1.n : \E k \in 1..c2.n :
           /\ RightOf(c1, c2) /\ EdgeOf(c1, j) = 1 /\ EdgeOf(c2, k) = 3
           /\ PointOf(c1, j) = PointOf(c2, k)
           /\ PointOf(c1, j) # OnGrid(EdgeA(c1, 1))
           /\ PointOf(c1, j) # OnGrid(EdgeB(c1, 1))
           /\ 2 * PointOf(c1, j).y # (EdgeA(c1, 1)[2] + EdgeB(c1, 1)[2]) * CoordRes

\* the lower corner c - (width, height) / 2 of the window, and the extent
\* (floor(width / h) * h, floor(height / h) * h) of the grid, in whole units
WindowLow == <<ms_center[1] - shaft.width \div 2, ms_center[2] - shaft.height \div 2>>
GridExtent ==
    <<(shaft.width \div resolution) * resolution,
      (shaft.height \div resolution) * resolution>>

\* C24: every point returned by marching_squares(h, c) lies in the
\* rectangle from c - (width, height)/2 to c - (width, height)/2 +
\* (floor(width/h)*h, floor(height/h)*h), which lies in the width x height
\* window centred at c.
C24_PointsInsideGrid ==
    (Len(ms_segments) > 0) =>
        /\ resolution > 0
        /\ GridExtent[1] <= shaft.width /\ GridExtent[2] <= shaft.height
        /\ \A k \in 1..Len(ms_segments) :
               LET q == ms_segments[k]
               IN  /\ WindowLow[1] * CoordRes <= q.x
                   /\ q.x <= (WindowLow[1] + GridExtent[1]) * CoordRes
                   /\ WindowLow[2] * CoordRes <= q.y
                   /\ q.y <= (WindowLow[2] + GridExtent[2]) * CoordRes

\* a call whose grid (one cell of 4 x 4) is smaller than its window (6 x 4)
\* and that returns a segment
C24_Witness ==
    /\ ms_pc = "done" /\ resolution = 4 /\ shaft.width = 6 /\ shaft.height = 4
    /\ Len(ms_segments) >= 2

\* C25: lines_to_triangles turns the disjoint pairs (points 0-1, 2-3, ...)
\* into one quad of 2 triangles each: 6 * floor(n / 2) vertices for n
\* points, quad k on points 2k and 2k + 1 in the order (a, b, c), (c, b, d),
\* no join and no cap; a trailing unpaired point gets nothing and fewer than
\* 2 points give the empty list; for an even n (the lists marching_squares
\* returns) every pair of points 2k, 2k + 1 is exactly one quad.
C25_LinesArePairs ==
    /\ CallsOf("join") = {} /\ CallsOf("cap") = {}
    /\ Len(verts) = 6 * Len(calls)
    /\ poly_pc = "done" =>
           /\ Len(verts) = 6 * (NumPoints \div 2)
           /\ NumPoints < 2 => verts = <<>>
           /\ \A k \in 0..((NumPoints \div 2) - 1) :
                  /\ calls[k + 1].kind = "quad" /\ calls[k + 1].at = 2 * k
                  /\ CallsAt("quad", 2 * k) = {k + 1}
                  /\ CallsAt("quad", 2 * k + 1) = {}
                  /\ \A e \in {1, 2, 5} : verts[6 * k + e].p = Pt(2 * k)
                  /\ \A e \in {3, 4, 6} : verts[6 * k + e].p = Pt(2 * k + 1)
                  /\ verts[6 * k + 3] = verts[6 * k + 4]
                  /\ verts[6 * k + 2] = verts[6 * k + 5]
           /\ NumPoints % 2 = 1 => CallsAt("quad", NumPoints - 1) = {}

\* five points: two quads, on points 0-1 and 2-3, the fifth point unused
C25_Witness ==
    /\ poly_pc = "done" /\ NumPoints = 5 /\ Len(verts) = 12
    /\ Pt(1) # Pt(2) /\ Pt(4) # Pt(3) /\ Pt(0) # Pt(1) /\ Pt(2) # Pt(3)
    /\ verts[7].p = Pt(2) /\ verts[12].p = Pt(3)

\* C26: after any sequence of on_keydown, on_keyup and fixed_update calls
\* health is between 1 and 5: before and after every call, a call takes at
\* most one off, and a fixed_update whose collision would take health to 0
\* (health 1, not invulnerable) leaves game_state GameOver and health 5.
C26_HealthOneToFive ==
    [][/\ app.health \in 1..5 /\ app'.health \in 1..5
       /\ app'.health < app.health => app'.health = app.health - 1
       /\ (app.invulnerability_ticks = 0 /\ app.health = 1 /\ FixedUpdate(TRUE))
              => (app'.game_state = "GameOver" /\ app'.health = 5)]_vars

\* the game has ended in a fixed_update (five damages, the last one at
\* health 1), health is back at 5
C26_Witness ==
    /\ app.game_state = "GameOver" /\ app.health = 5
    /\ app_hist.gap = InvulnerabilityTicks /\ app_hist.since_damage = InvulnerabilityTicks

\* C27: invulnerability_ticks never exceeds 240 and goes down by one in
\* every fixed_update while positive: k fixed_update calls after one that
\* decremented health without ending the game it is 239 - k, for k up to
\* 239, and it is positive then only; a fixed_update that decrements health
\* is never one of the 239 that follow such a call: it is the 240th or a
\* later one.
C27_InvulnerableFor239Updates ==
    /\ app.invulnerability_ticks \in 0..240
    /\ app.invulnerability_ticks > 0 => app_hist.since_damage \in 0..238
    /\ app_hist.since_damage \in 0..239
           => app.invulnerability_ticks = 239 - app_hist.since_damage
    /\ app_hist.gap # NoDamage => app_hist.gap >= 240

\* a second damage, taken by the 240th fixed_update after the first one
C27_Witness ==
    /\ app.health = 3 /\ app.game_state = "InGame"
    /\ app_hist.gap = 240 /\ app_hist.since_damage = 0
    /\ app.invulnerability_ticks = 239

\* the fields on_keydown resets when it starts a game
IsReset(a) ==
    /\ a.player_ship = [transform |-> "IDENTITY", vel |-> "ZERO"]
    /\ a.max_depth = 0
    /\ a.health = 5

\* C28: game_state changes only from SplashScreen or GameOver to InGame, in
\* an on_keydown, and to GameOver, in a fixed_update whose collision takes
\* health to 0; on_keydown with any key starts the game from SplashScreen
\* and GameOver and resets the ship's transform and velocity, max_depth and
\* health in that step; SplashScreen is never entered; on_keydown while
\* InGame changes the thrust and turn flags only.
C28_GameStateTransitions ==
    [][/\ app'.game_state # app.game_state
              => \/ /\ app.game_state \in {"SplashScreen", "GameOver"}
                    /\ app'.game_state = "InGame"
                    /\ AppKeyDown
                    /\ IsReset(app')
                 \/ /\ app'.game_state = "GameOver"
                    /\ FixedUpdate(TRUE)
                    /\ app.health = 1 /\ app.invulnerability_ticks = 0
       /\ app'.game_state = "SplashScreen" => app.game_state = "SplashScreen"
       /\ \A key \in Keys :
              (KeyDown(key) /\ app.game_state \in {"SplashScreen", "GameOver"})
                  => (app'.game_state = "InGame" /\ IsReset(app'))
       /\ \A key \in Keys :
              (KeyDown(key) /\ app.game_state = "InGame")
                  => app' = [app EXCEPT !.thrust = app'.thrust,
                                        !.turn_left = app'.turn_left,
                                        !.turn_right = app'.turn_right]]_vars

\* a second game: InGame again after a game that ended, reset, with the
\* flags of the key that started it
C28_Witness ==
    /\ app.game_state = "InGame" /\ app_hist.gap = 240
    /\ app_hist.since_damage = 240
    /\ IsReset(app) /\ app.turn_left /\ ~app.thrust

\* the lists queued for a colour while `renders` render calls had been
\* made, in the order of the calls, as one list
RECURSIVE QueuedFrom(_, _, _)
QueuedFrom(k, color, renders) ==
    IF k > Len(queued_log) THEN <<>>
    ELSE (IF queued_log[k].color = color /\ queued_log[k].renders = renders
          THEN queued_log[k].vertices ELSE <<>>)
             \o QueuedFrom(k + 1, color, renders)

HasQueued(color, renders) ==
    \E k \in 1..Len(queued_log) :
        queued_log[k].color = color /\ queued_log[k].renders = renders

DrawsOf(color, render) ==
    {i \in 1..Len(gl_log) : gl_log[i].color = color /\ gl_log[i].render = render}

\* C29: render draws every per-colour list accumulated since the previous
\* render, once, and leaves the map empty: the r-th render draws for each
\* colour exactly the lists queued after render r - 1, and nothing of a
\* colour with none; a list is drawn by no later render; between renders
\* the list of each colour is what the draw_poly_line calls of that colour
\* have appended since the last render, so a call changes the list of its
\* own colour only.
C29_RenderDrawsAndClears ==
    /\ \A c \in Colors :
           /\ c \in DOMAIN vertices <=> HasQueued(c, scribe_call.renders)
           /\ c \in DOMAIN vertices
                  => vertices[c] = QueuedFrom(1, c, scribe_call.renders)
           /\ \A r \in 1..scribe_call.renders :
                  /\ Cardinality(DrawsOf(c, r)) = IF HasQueued(c, r - 1) THEN 1 ELSE 0
                  /\ \A i \in DrawsOf(c, r) :
                         gl_log[i].vertices = QueuedFrom(1, c, r - 1)
    /\ \A i \in 1..Len(gl_log) : gl_log[i].render \in 1..scribe_call.renders
    /\ \A i, j \in 1..Len(gl_log) : i < j => gl_log[i].render <= gl_log[j].render

\* two renders: the first drew two colours, one of them with the lists of
\* two calls, the second drew nothing, and the map is empty
C29_Witness ==
    /\ scribe_call.renders = 2 /\ scribe_call.pc = "idle"
    /\ vertices = NoVertices
    /\ Len(queued_log) = 3 /\ Len(gl_log) = 2
    /\ queued_log[1].color = "White" /\ queued_log[2].color = "Yellow"
    /\ queued_log[3].color = "White"
    /\ queued_log[1].vertices # queued_log[3].vertices
    /\ \A k \in 1..3 : queued_log[k].renders = 0
    /\ \E i \in 1..2 :
           /\ gl_log[i].color = "White" /\ gl_log[i].render = 1
           /\ gl_log[i].vertices = queued_log[1].vertices \o queued_log[3].vertices

\* the calls of frame n in frame_log, by kind, and now - last when the
\* callback of frame n began (at its first call)
FrameCalls(n, call) ==
    {i \in 1..Len(frame_log) : frame_log[i].frame = n /\ frame_log[i].call = call}
AllFrameCalls(n) == {i \in 1..Len(frame_log) : frame_log[i].frame = n}
FirstCall(n) == CHOOSE i \in AllFrameCalls(n) : \A j \in AllFrameCalls(n) : i <= j
FrameComplete(n) == n < frame.frames \/ frame.pc = "idle"

\* the fixed_update calls of a frame that begins with now - last = e: one
\* per whole interval, one less when e is a whole number of intervals
UpdatesFor(e) ==
    IF e <= UpdateDuration THEN 0
    ELSE IF e % UpdateDuration = 0 THEN e \div UpdateDuration - 1
    ELSE e \div UpdateDuration

\* C30 (amended): in every callback the loop ends; fixed_update is called
\* while now - last is more than one interval and last advances by one
\* interval per call: floor(e / interval) calls for a callback that begins
\* with now - last = e, but one less when e is a whole number >= 1 of
\* intervals; afterwards 0 <= now - last <= interval; then draw is called
\* once and then the next frame is requested once; no fixed_update of a
\* frame comes after its draw.
C30_FrameLoop ==
    /\ \A i, j \in 1..Len(frame_log) : i < j => frame_log[i].frame <= frame_log[j].frame
    /\ \A n \in 1..frame.frames :
           LET updates == FrameCalls(n, "fixed_update")
               draws == FrameCalls(n, "draw")
               requests == FrameCalls(n, "request_animation_frame")
           IN  /\ \A i \in updates : frame_log[i].elapsed > UpdateDuration
               /\ \A i \in updates :
                      (i + 1 \in AllFrameCalls(n))
                          => frame_log[i + 1].elapsed
                                 = frame_log[i].elapsed - UpdateDuration
               /\ Cardinality(draws) <= 1 /\ Cardinality(requests) <= 1
               /\ \A u \in updates : \A d \in draws : u < d
               /\ \A d \in draws : \A r \in requests : d < r
               /\ requests # {} => draws # {}
               /\ \A d \in draws :
                      /\ frame_log[d].elapsed >= 0
                      /\ frame_log[d].elapsed <= UpdateDuration
                      /\ Cardinality(updates)
                             = UpdatesFor(frame_log[FirstCall(n)].elapsed)
               /\ AllFrameCalls(n) # {}
                      => Cardinality(updates)
                             <= UpdatesFor(frame_log[FirstCall(n)].elapsed)
               /\ FrameComplete(n) => (Cardinality(draws) = 1 /\ Cardinality(requests) = 1)

\* a finished callback that began with now - last of exactly two intervals:
\* one fixed_update, then draw with one interval left, then the request
C30_Witness ==
    /\ frame.pc = "idle"
    /\ \E n \in 1..frame.frames :
           /\ frame_log[FirstCall(n)].elapsed = 2 * UpdateDuration
           /\ Cardinality(FrameCalls(n, "fixed_update")) = 1
           /\ \E d \in FrameCalls(n, "draw") : frame_log[d].elapsed = UpdateDuration
    /\ \E n \in 1..frame.frames :
           Cardinality(FrameCalls(n, "fixed_update")) = 3

\* C30 (as claimed): a callback calls fixed_update once per whole update
\* interval elapsed since last.
C30_OncePerWholeInterval ==
    \A n \in 1..frame.frames : \A d \in FrameCalls(n, "draw") :
        Cardinality(FrameCalls(n, "fixed_update"))
            = frame_log[FirstCall(n)].elapsed \div UpdateDuration

====
